---- MODULE Spec2Model ----
(***************************************************************************)
(* The in-memory sandbox tree of the digital organiser                     *)
(* (src/src/renderer/fileSandbox/tree.ts, path.ts) and the diff generator  *)
(* that reads it (src/unnamed/part_001, imported as ./diff).               *)
(*                                                                         *)
(* Strings are sequences of one-character strings, so that splitting,      *)
(* joining, suffixing and comparing names and ids is computed, not         *)
(* assumed.  null / undefined ids are the empty sequence; no id of the     *)
(* model is the empty string.                                              *)
(***************************************************************************)
EXTENDS Integers, Sequences, FiniteSets, TLC

VARIABLES tree, last, steps, run, heap, saved, history, norm, store

vars == <<tree, last, steps, run, heap, saved, history, norm, store>>

\* ------------------------------------------------------------------ bounds

\* number of create / rename / move / delete calls in one behaviour
MaxSteps == 2
\* createNode is called only while tree.nextLocalId <= MaxLocalId
MaxLocalId == 2
\* generateDiff is called only while tree.diffSequence < MaxDiffSeq
MaxDiffSeq == 1
\* the locked-file handler is asked again for one op only while it was asked
\* fewer than MaxAsks times
MaxAsks == 2
\* createUndoRedo(capacity) is called with a capacity of 0..MaxCapacity
MaxCapacity == 2
\* the commands handed to execute are 1..MaxCommands
MaxCommands == 2
\* number of execute / undo / redo calls on one manager
MaxCalls == 6
\* the paths handed to normalisePath have at most MaxPathLen characters
MaxPathLen == 5
\* number of calls on one store
MaxStoreCalls == 4

\* ----------------------------------------------------------------- strings

NULL == <<>>

DigitChars == <<"0", "1", "2", "3", "4", "5", "6", "7", "8", "9">>

IsDigit(c) == \E i \in 1..10 : DigitChars[i] = c

DigitVal(c) == (CHOOSE i \in 1..10 : DigitChars[i] = c) - 1

\* `${n}` for a non-negative integer
RECURSIVE NatToStr(_)
NatToStr(n) ==
  IF n < 10 THEN <<DigitChars[n + 1]>>
  ELSE NatToStr(n \div 10) \o <<DigitChars[(n % 10) + 1]>>

\* Number(digits)
RECURSIVE StrToNat(_)
StrToNat(s) ==
  IF Len(s) = 0 THEN 0
  ELSE 10 * StrToNat(SubSeq(s, 1, Len(s) - 1)) + DigitVal(s[Len(s)])

\* parts.join('/')
RECURSIVE JoinSlash(_)
JoinSlash(parts) ==
  IF Len(parts) = 0 THEN <<>>
  ELSE IF Len(parts) = 1 THEN parts[1]
  ELSE parts[1] \o <<"/">> \o JoinSlash(Tail(parts))

\* Collation order of the characters the model uses (String.localeCompare:
\* white space, then punctuation, then digits, then letters).
Alphabet ==
  <<" ", "-", ".", "/", "0", "1", "2", "3", "4", "5", "6", "7", "8", "9",
    "a", "b", "c", "d", "e", "f", "g", "h", "i", "j", "k", "l", "m", "n",
    "o", "p", "q", "r", "s", "t", "u", "v", "w", "x", "y", "z">>

CharRank(c) == CHOOSE i \in 1..Len(Alphabet) : Alphabet[i] = c

\* a.localeCompare(b): negative, zero or positive
RECURSIVE localeCompare(_, _)
localeCompare(a, b) ==
  IF Len(a) = 0 /\ Len(b) = 0 THEN 0
  ELSE IF Len(a) = 0 THEN -1
  ELSE IF Len(b) = 0 THEN 1
  ELSE IF CharRank(a[1]) < CharRank(b[1]) THEN -1
  ELSE IF CharRank(a[1]) > CharRank(b[1]) THEN 1
  ELSE localeCompare(Tail(a), Tail(b))

\* Array.prototype.sort, a stable sort; cmp[i][j] is the comparator's result
\* for (s[i], s[j]).
StableSort(s, cmp) ==
  LET pos(i) == 1 + Cardinality({j \in 1..Len(s) : cmp[j][i] < 0})
                  + Cardinality({j \in 1..(i - 1) : cmp[j][i] = 0})
  IN  [k \in 1..Len(s) |-> s[CHOOSE i \in 1..Len(s) : pos(i) = k]]

\* array.filter(x => x !== v)
RECURSIVE Without(_, _)
Without(s, v) ==
  IF Len(s) = 0 THEN <<>>
  ELSE IF s[1] = v THEN Without(Tail(s), v)
  ELSE <<s[1]>> \o Without(Tail(s), v)

Range(s) == {s[i] : i \in 1..Len(s)}

\* ----------------------------------------------------------------- path.ts

InvalidCharacters == {"\\", "/", ":", "*", "?", "\"", "<", ">", "|"}

hasInvalidCharacters(name) == \E i \in 1..Len(name) : name[i] \in InvalidCharacters

UpperToLower ==
  [c \in {"C", "O", "N", "P", "R", "A", "U", "X", "L", "M", "T"} |->
     CASE c = "C" -> "c" [] c = "O" -> "o" [] c = "N" -> "n" [] c = "P" -> "p"
       [] c = "R" -> "r" [] c = "A" -> "a" [] c = "U" -> "u" [] c = "X" -> "x"
       [] c = "L" -> "l" [] c = "M" -> "m" [] c = "T" -> "t"]

\* name.toLowerCase()
toLowerCase(name) ==
  [i \in 1..Len(name) |->
     IF name[i] \in DOMAIN UpperToLower THEN UpperToLower[name[i]] ELSE name[i]]

reservedNames ==
  {<<"c", "o", "n">>, <<"p", "r", "n">>, <<"a", "u", "x">>, <<"n", "u", "l">>}
  \cup {<<"c", "o", "m", DigitChars[i]>> : i \in 2..10}
  \cup {<<"l", "p", "t", DigitChars[i]>> : i \in 2..10}

isReservedName(name) == toLowerCase(name) \in reservedNames

\* name.trim().length === 0 (the model's only white-space character is " ")
IsBlank(name) == \A i \in 1..Len(name) : name[i] = " "

\* The error ensureValidName throws, or "none".
ensureValidName(name) ==
  IF Len(name) = 0 \/ IsBlank(name) THEN "EmptyName"
  ELSE IF hasInvalidCharacters(name) THEN "InvalidCharacters"
  ELSE IF isReservedName(name) THEN "ReservedName"
  ELSE "none"

\* name.lastIndexOf('.') + 1: the 1-based position of the last dot, 0 if none
LastDot(name) ==
  IF \E i \in 1..Len(name) : name[i] = "."
  THEN CHOOSE i \in 1..Len(name) :
         name[i] = "." /\ \A j \in (i + 1)..Len(name) : name[j] # "."
  ELSE 0

splitStemAndExtension(name) ==
  LET lastDot == LastDot(name) - 1
  IN  IF lastDot <= 0 THEN [stem |-> name, extension |-> <<>>]
      ELSE [stem |-> SubSeq(name, 1, lastDot),
            extension |-> SubSeq(name, lastDot + 1, Len(name))]

\* ----------------------------------------------------------------- tree.ts

\* A SandboxNode.  A node created in the session has no original fields
\* (undefined); the model writes them NULL, and nothing reads them.
SandboxNode(id, name, kind, parentId, fromSnapshot) ==
  [id |-> id, name |-> name, kind |-> kind, parentId |-> parentId,
   children |-> <<>>, fromSnapshot |-> fromSnapshot,
   originalName |-> IF fromSnapshot THEN name ELSE NULL,
   originalParentId |-> IF fromSnapshot THEN parentId ELSE NULL]

\* tree.nodes.has(id)
Has(t, id) == id \in DOMAIN t.nodes

\* tree.nodes.set(id, node): a Map keeps the position of a key it already
\* holds and appends a new key (t.order is the Map's iteration order).
MapSet(t, id, node) ==
  [t EXCEPT
     !.nodes = [i \in DOMAIN t.nodes \cup {id} |-> IF i = id THEN node ELSE t.nodes[i]],
     !.order = IF id \in DOMAIN t.nodes THEN t.order ELSE Append(t.order, id)]

\* tree.nodes.delete(id)
MapDelete(t, id) ==
  [t EXCEPT
     !.nodes = [i \in DOMAIN t.nodes \ {id} |-> t.nodes[i]],
     !.order = Without(t.order, id)]

addNode(t, data, parentId) ==
  LET node == SandboxNode(data.id, data.name, data.kind, parentId, TRUE)
      t1   == MapSet(t, node.id, node)
      t2   == IF parentId # NULL
              THEN [t1 EXCEPT !.nodes[parentId].children = Append(@, node.id)]
              ELSE t1
  IN  [t2 EXCEPT
         !.originalNodes =
            [i \in DOMAIN t2.originalNodes \cup {node.id} |->
               IF i = node.id
               THEN [name |-> data.name, parentId |-> parentId, kind |-> data.kind]
               ELSE t2.originalNodes[i]],
         !.originalOrder =
            IF node.id \in DOMAIN t2.originalNodes THEN @ ELSE Append(@, node.id)]

\* walk (buildSandboxTree): adds the node, records its as-loaded path, then
\* walks the children in order.
RECURSIVE walk(_, _, _, _)
walk(t, node, parentId, pathSegments) ==
  LET t1   == addNode(t, node, parentId)
      path == JoinSlash(Append(pathSegments, node.name))
      t2   == [t1 EXCEPT
                 !.originalPaths =
                    [i \in DOMAIN t1.originalPaths \cup {node.id} |->
                       IF i = node.id THEN path ELSE t1.originalPaths[i]]]
      RECURSIVE each(_, _)
      each(tt, kids) ==
        IF Len(kids) = 0 THEN tt
        ELSE each(walk(tt, kids[1], node.id, Append(pathSegments, node.name)),
                  Tail(kids))
  IN  each(t2, node.children)

buildSandboxTree(snapshot) ==
  walk([nodes |-> <<>>, order |-> <<>>, rootId |-> snapshot.tree.id,
        snapshotRootPath |-> snapshot.rootPath,
        originalPaths |-> <<>>, originalNodes |-> <<>>, originalOrder |-> <<>>,
        nextLocalId |-> 1, diffSequence |-> 0],
       snapshot.tree, NULL, <<>>)

\* The outcome of a call: the tree it leaves, the error it threw ("none" if it
\* returned) and the id of the node it returned.
Ok(t, ret) == [t |-> t, err |-> "none", ret |-> ret]

Throw(t, err) == [t |-> t, err |-> err, ret |-> NULL]

\* The error assertFolder throws, or "none".
assertFolder(t, nodeId) ==
  IF ~Has(t, nodeId) THEN "NodeNotFound"
  ELSE IF t.nodes[nodeId].kind # "folder" THEN "NotAFolder"
  ELSE "none"

\* parent.children.map(id => nodes.get(id)).filter(Boolean), as ids
Siblings(t, parentId) == SelectSeq(t.nodes[parentId].children, LAMBDA c : Has(t, c))

\* the do-while left after its first round: always stem-1+extension
NextCandidateOnce(t, siblings, stem, extension, excludeId, suffix) ==
  stem \o <<"-">> \o NatToStr(suffix) \o extension

\* The do-while of resolveNameConflict: the first stem-k+extension, k from
\* suffix upwards, that no sibling other than excludeId holds.
RECURSIVE NextCandidate(_, _, _, _, _, _)
NextCandidate(t, siblings, stem, extension, excludeId, suffix) ==
  LET candidate == stem \o <<"-">> \o NatToStr(suffix) \o extension
  IN  IF \E i \in 1..Len(siblings) :
           t.nodes[siblings[i]].name = candidate /\ siblings[i] # excludeId
      THEN NextCandidate(t, siblings, stem, extension, excludeId, suffix + 1)
      ELSE candidate

\* [err, name, mergeTarget]; mergeTarget is the id of the conflicting folder
\* or NULL.  strategy is "suffix" (also when the option is absent) or "throw".
resolveNameConflict(t, parentId, desiredName, excludeId, kind, allowMerge, strategy) ==
  LET af == assertFolder(t, parentId)
  IN  IF af # "none" THEN [err |-> af, name |-> NULL, mergeTarget |-> NULL]
      ELSE
        LET siblings == Siblings(t, parentId)
            hits == {i \in 1..Len(siblings) :
                       t.nodes[siblings[i]].name = desiredName /\ siblings[i] # excludeId}
        IN  IF hits = {}
            THEN [err |-> "none", name |-> desiredName, mergeTarget |-> NULL]
            ELSE
              LET conflict == siblings[CHOOSE i \in hits : \A j \in hits : i <= j]
                  split    == splitStemAndExtension(desiredName)
              IN  IF allowMerge /\ t.nodes[conflict].kind = "folder" /\ kind = "folder"
                  THEN [err |-> "none", name |-> t.nodes[conflict].name,
                        mergeTarget |-> conflict]
                  ELSE IF strategy = "throw"
                  THEN [err |-> "NameAlreadyExists", name |-> NULL, mergeTarget |-> NULL]
                  ELSE [err |-> "none",
                        name |-> NextCandidate(t, siblings, split.stem, split.extension,
                                               excludeId, 1),
                        mergeTarget |-> NULL]

\* `local-${n}`
LocalId(n) == <<"l", "o", "c", "a", "l", "-">> \o NatToStr(n)

\* /^local-(\d+)$/.exec(id): the number, or -1 when the id does not match
MatchLocalId(id) ==
  IF /\ Len(id) > 6
     /\ SubSeq(id, 1, 6) = <<"l", "o", "c", "a", "l", "-">>
     /\ \A i \in 7..Len(id) : IsDigit(id[i])
  THEN StrToNat(SubSeq(id, 7, Len(id)))
  ELSE -1

\* reparent(tree, id, newParent); newParent is a live node of the tree.
reparent(t, id, newParentId) ==
  IF ~Has(t, id) THEN Throw(t, "NodeNotFound")
  ELSE
    LET old == t.nodes[id].parentId
        t1  == IF old # NULL /\ Has(t, old)
               THEN [t EXCEPT !.nodes[old].children = Without(@, id)]
               ELSE t
        t2  == [t1 EXCEPT !.nodes[id].parentId = newParentId]
    IN  Ok([t2 EXCEPT !.nodes[newParentId].children = Append(@, id)], id)

\* createNode that allocates the local id before it resolves the name
\* conflict, so that a throwing create still advances nextLocalId
createNodeAllocatesFirst(t, parentId, name, kind, id) ==
  LET af == assertFolder(t, parentId)
      nv == ensureValidName(name)
      t1 == IF id = NULL THEN [t EXCEPT !.nextLocalId = @ + 1] ELSE t
      r  == resolveNameConflict(t, parentId, name, NULL, kind, FALSE,
                                IF kind = "folder" THEN "suffix" ELSE "throw")
  IN  IF af # "none" THEN Throw(t, af)
      ELSE IF nv # "none" THEN Throw(t, nv)
      ELSE IF r.err # "none" THEN Throw(t1, r.err)
      ELSE
        LET nodeId  == IF id = NULL THEN LocalId(t.nextLocalId) ELSE id
            numeric == IF id = NULL THEN -1 ELSE MatchLocalId(id)
            t2      == IF numeric >= t1.nextLocalId
                       THEN [t1 EXCEPT !.nextLocalId = numeric + 1]
                       ELSE t1
            node    == SandboxNode(nodeId, r.name, kind, parentId, FALSE)
            t3      == MapSet(t2, nodeId, node)
        IN  Ok(IF nodeId = parentId THEN t3
               ELSE [t3 EXCEPT !.nodes[parentId].children = Append(@, nodeId)],
               nodeId)

\* createNode(tree, parentId, {name, kind, id}); id = NULL when the payload has
\* none.  A payload id equal to parentId replaces the parent in the Map, and
\* the push then lands on the replaced object.
createNode(t, parentId, name, kind, id) ==
  LET af == assertFolder(t, parentId)
      nv == ensureValidName(name)
      r  == resolveNameConflict(t, parentId, name, NULL, kind, FALSE,
                                IF kind = "folder" THEN "suffix" ELSE "throw")
  IN  IF af # "none" THEN Throw(t, af)
      ELSE IF nv # "none" THEN Throw(t, nv)
      ELSE IF r.err # "none" THEN Throw(t, r.err)
      ELSE
        LET nodeId  == IF id = NULL THEN LocalId(t.nextLocalId) ELSE id
            t1      == IF id = NULL THEN [t EXCEPT !.nextLocalId = @ + 1] ELSE t
            numeric == IF id = NULL THEN -1 ELSE MatchLocalId(id)
            t2      == IF numeric >= t1.nextLocalId
                       THEN [t1 EXCEPT !.nextLocalId = numeric + 1]
                       ELSE t1
            node    == SandboxNode(nodeId, r.name, kind, parentId, FALSE)
            t3      == MapSet(t2, nodeId, node)
        IN  Ok(IF nodeId = parentId THEN t3
               ELSE [t3 EXCEPT !.nodes[parentId].children = Append(@, nodeId)],
               nodeId)

\* renameNode that does not exclude the node itself from the collision check
renameNodeCountsItself(t, id, desiredName) ==
  IF ~Has(t, id) THEN Throw(t, "NodeNotFound")
  ELSE
    LET nv       == ensureValidName(desiredName)
        parentId == t.nodes[id].parentId
        r        == resolveNameConflict(t, parentId, desiredName, NULL,
                                        t.nodes[id].kind, FALSE, "suffix")
    IN  IF nv # "none" THEN Throw(t, nv)
        ELSE IF parentId = NULL
        THEN Ok([t EXCEPT !.nodes[id].name = desiredName], id)
        ELSE IF r.err # "none" THEN Throw(t, r.err)
        ELSE Ok([t EXCEPT !.nodes[id].name = r.name], id)

\* renameNode(tree, id, desiredName)
renameNode(t, id, desiredName) ==
  IF ~Has(t, id) THEN Throw(t, "NodeNotFound")
  ELSE
    LET nv       == ensureValidName(desiredName)
        parentId == t.nodes[id].parentId
        r        == resolveNameConflict(t, parentId, desiredName, id,
                                        t.nodes[id].kind, FALSE, "suffix")
    IN  IF nv # "none" THEN Throw(t, nv)
        ELSE IF parentId = NULL
        THEN Ok([t EXCEPT !.nodes[id].name = desiredName], id)
        ELSE IF r.err # "none" THEN Throw(t, r.err)
        ELSE Ok([t EXCEPT !.nodes[id].name = r.name], id)

\* visit(id) of dfsOrder: result.push(id), then visit each child in stored
\* order; [ids, overflow], overflow when the recursion is deeper than the
\* number of nodes, i.e. the children lists hold a cycle and the call stack
\* overflows.
RECURSIVE DfsVisit(_, _, _)
DfsVisit(t, id, fuel) ==
  IF ~Has(t, id) THEN [ids |-> <<id>>, overflow |-> FALSE]
  ELSE IF fuel = 0 THEN [ids |-> <<id>>, overflow |-> TRUE]
  ELSE
    LET RECURSIVE each(_)
        each(kids) ==
          IF Len(kids) = 0 THEN [ids |-> <<>>, overflow |-> FALSE]
          ELSE LET a == DfsVisit(t, kids[1], fuel - 1)
                   b == each(Tail(kids))
               IN  [ids |-> a.ids \o b.ids, overflow |-> a.overflow \/ b.overflow]
        rest == each(t.nodes[id].children)
    IN  [ids |-> <<id>> \o rest.ids, overflow |-> rest.overflow]

\* dfsOrder(tree): [ids, overflow]
dfsOrder(t) == DfsVisit(t, t.rootId, Cardinality(DOMAIN t.nodes) + 1)

\* The while loop of bfsOrder, a whole generation of the queue at a time:
\* the ids of queue are shifted and pushed to result in order, and their
\* children are pushed to the queue behind them.  [ids, diverges]; a queue
\* that is not empty after more generations than there are nodes holds a
\* cycle, and the loop never ends.
RECURSIVE BfsLoop(_, _, _)
BfsLoop(t, queue, fuel) ==
  IF Len(queue) = 0 THEN [ids |-> <<>>, diverges |-> FALSE]
  ELSE IF fuel = 0 THEN [ids |-> queue, diverges |-> TRUE]
  ELSE
    LET RECURSIVE pushed(_)
        pushed(q) ==
          IF Len(q) = 0 THEN <<>>
          ELSE (IF Has(t, q[1]) THEN t.nodes[q[1]].children ELSE <<>>)
                 \o pushed(Tail(q))
        rest == BfsLoop(t, pushed(queue), fuel - 1)
    IN  [ids |-> queue \o rest.ids, diverges |-> rest.diverges]

\* bfsOrder(tree): [ids, diverges]
bfsOrder(t) == BfsLoop(t, <<t.rootId>>, Cardinality(DOMAIN t.nodes) + 2)

\* The while loop of isDescendant from cursor on: "true", "false", or
\* "diverges" when the parentId chain runs into a cycle that does not hold
\* potentialAncestorId (the loop then never ends).  A chain longer than the
\* number of nodes has entered a cycle.
RECURSIVE AncestorWalk(_, _, _, _)
AncestorWalk(t, cursor, potentialAncestorId, fuel) ==
  IF cursor = NULL THEN "false"
  ELSE IF cursor = potentialAncestorId THEN "true"
  ELSE IF fuel = 0 THEN "diverges"
  ELSE AncestorWalk(t, IF Has(t, cursor) THEN t.nodes[cursor].parentId ELSE NULL,
                    potentialAncestorId, fuel - 1)

isDescendant(t, id, potentialAncestorId) ==
  AncestorWalk(t, IF Has(t, id) THEN t.nodes[id].parentId ELSE NULL,
               potentialAncestorId, Cardinality(DOMAIN t.nodes))

\* collectDescendants that stops at the children of the node
CollectFromShallow(t, id, fuel) ==
  IF ~Has(t, id) \/ t.nodes[id].kind # "folder"
  THEN [ids |-> <<>>, overflow |-> FALSE]
  ELSE [ids |-> t.nodes[id].children, overflow |-> FALSE]

\* collectDescendants(tree, id): [ids, overflow]; overflow when the recursion
\* is deeper than the number of nodes, i.e. the children lists hold a cycle
\* and the call stack overflows.
RECURSIVE CollectFrom(_, _, _)
CollectFrom(t, id, fuel) ==
  IF ~Has(t, id) \/ t.nodes[id].kind # "folder"
  THEN [ids |-> <<>>, overflow |-> FALSE]
  ELSE IF fuel = 0 THEN [ids |-> <<>>, overflow |-> TRUE]
  ELSE
    LET RECURSIVE each(_)
        each(kids) ==
          IF Len(kids) = 0 THEN [ids |-> <<>>, overflow |-> FALSE]
          ELSE LET a == CollectFrom(t, kids[1], fuel - 1)
                   b == each(Tail(kids))
               IN  [ids |-> <<kids[1]>> \o a.ids \o b.ids,
                    overflow |-> a.overflow \/ b.overflow]
    IN  each(t.nodes[id].children)

collectDescendants(t, id) == CollectFrom(t, id, Cardinality(DOMAIN t.nodes) + 1)

\* ids.forEach(id => tree.nodes.delete(id))
RECURSIVE DeleteAll(_, _)
DeleteAll(t, ids) ==
  IF Len(ids) = 0 THEN t ELSE DeleteAll(MapDelete(t, ids[1]), Tail(ids))

\* deleteNode that leaves the id in its parent's children list
deleteNodeKeepsLink(t, id) ==
  IF ~Has(t, id) THEN Throw(t, "NodeNotFound")
  ELSE
    LET d == collectDescendants(t, id)
    IN  IF d.overflow THEN Throw(t, "RangeError")
        ELSE Ok(MapDelete(DeleteAll(t, d.ids), id), NULL)

\* deleteNode(tree, id)
deleteNode(t, id) ==
  IF ~Has(t, id) THEN Throw(t, "NodeNotFound")
  ELSE
    LET parentId == t.nodes[id].parentId
        t1 == IF parentId # NULL /\ Has(t, parentId)
              THEN [t EXCEPT !.nodes[parentId].children = Without(@, id)]
              ELSE t
        d  == collectDescendants(t1, id)
    IN  IF d.overflow THEN Throw(t1, "RangeError")
        ELSE Ok(MapDelete(DeleteAll(t1, d.ids), id), NULL)

\* [...node.children].forEach(childId => reparent(tree, childId, mergeTarget)):
\* stops at the first reparent that throws, keeping what was done before it.
RECURSIVE ReparentAll(_, _, _)
ReparentAll(t, kids, mergeTarget) ==
  IF Len(kids) = 0 THEN Ok(t, mergeTarget)
  ELSE LET r == reparent(t, kids[1], mergeTarget)
       IN  IF r.err # "none" THEN r ELSE ReparentAll(r.t, Tail(kids), mergeTarget)

\* moveNode(tree, id, targetParentId); err = "diverges" when isDescendant
\* never returns.
moveNode(t, id, targetParentId) ==
  IF ~Has(t, id) THEN Throw(t, "NodeNotFound")
  ELSE IF t.nodes[id].parentId = targetParentId THEN Ok(t, id)
  ELSE IF ~Has(t, targetParentId) THEN Throw(t, "NodeNotFound")
  ELSE
    LET node == t.nodes[id]
        desc == isDescendant(t, targetParentId, id)
        af   == assertFolder(t, targetParentId)
        r    == resolveNameConflict(t, targetParentId, node.name, id, node.kind,
                                    TRUE, "suffix")
    IN  IF desc = "diverges" THEN Throw(t, "diverges")
        ELSE IF desc = "true" THEN Throw(t, "CannotMoveIntoDescendant")
        ELSE IF af # "none" THEN Throw(t, af)
        ELSE IF r.err # "none" THEN Throw(t, r.err)
        ELSE IF r.mergeTarget # NULL /\ node.kind = "folder"
        THEN LET m == ReparentAll(t, node.children, r.mergeTarget)
                 d == deleteNode(m.t, id)
             IN  IF m.err # "none" THEN m
                 ELSE IF d.err # "none" THEN d
                 ELSE Ok(d.t, r.mergeTarget)
        ELSE reparent([t EXCEPT !.nodes[id].name = r.name], id, targetParentId)

\* pathOf(tree, id): [path, err]; err is "NodeNotFound", "diverges" (the
\* parentId chain cycles, the while loop never ends) or "none".
RECURSIVE PathParts(_, _, _, _)
PathParts(t, cursor, parts, fuel) ==
  IF cursor = NULL \/ ~Has(t, cursor) THEN [path |-> JoinSlash(parts), err |-> "none"]
  ELSE IF fuel = 0 THEN [path |-> NULL, err |-> "diverges"]
  ELSE PathParts(t, t.nodes[cursor].parentId, <<t.nodes[cursor].name>> \o parts,
                 fuel - 1)

pathOf(t, id) ==
  IF ~Has(t, id) THEN [path |-> NULL, err |-> "NodeNotFound"]
  ELSE PathParts(t, t.nodes[id].parentId, <<t.nodes[id].name>>,
                 Cardinality(DOMAIN t.nodes))

\* serialiseSubtree(tree, id): [err, s]; s is the SerializedSandboxNode, err
\* "NodeNotFound" when the id or an id of a children list names no node,
\* "RangeError" when the children lists hold a cycle and the call stack
\* overflows (a recursion deeper than the number of nodes).
RECURSIVE SerialiseFrom(_, _, _)
SerialiseFrom(t, id, fuel) ==
  IF ~Has(t, id) THEN [err |-> "NodeNotFound", s |-> NULL]
  ELSE IF fuel = 0 THEN [err |-> "RangeError", s |-> NULL]
  ELSE
    LET node == t.nodes[id]
        kids == [k \in 1..Len(node.children) |->
                   SerialiseFrom(t, node.children[k], fuel - 1)]
        bad  == {k \in 1..Len(kids) : kids[k].err # "none"}
    IN  IF bad # {}
        THEN [err |-> kids[CHOOSE k \in bad : \A j \in bad : k <= j].err, s |-> NULL]
        ELSE [err |-> "none",
              s |-> [id |-> node.id, name |-> node.name, kind |-> node.kind,
                     parentId |-> node.parentId, fromSnapshot |-> node.fromSnapshot,
                     originalName |-> node.originalName,
                     originalParentId |-> node.originalParentId,
                     children |-> [k \in 1..Len(kids) |-> kids[k].s]]]

serialiseSubtree(t, id) == SerialiseFrom(t, id, Cardinality(DOMAIN t.nodes) + 1)

\* restoreSubtree that sets the node and leaves its children out
restoreSubtreeShallow(t, parentId, snapshot) ==
  LET node == [id |-> snapshot.id, name |-> snapshot.name, kind |-> snapshot.kind,
               parentId |-> parentId, children |-> <<>>,
               fromSnapshot |-> snapshot.fromSnapshot,
               originalName |-> snapshot.originalName,
               originalParentId |-> snapshot.originalParentId]
      t1 == MapSet(t, node.id, node)
  IN  IF parentId # NULL
      THEN IF Has(t1, parentId)
           THEN [t1 EXCEPT !.nodes[parentId].children = Append(@, node.id)]
           ELSE t1
      ELSE [t1 EXCEPT !.rootId = node.id]

\* restoreSubtree(tree, parentId, snapshot): the tree it leaves.  The node
\* is set in the Map with no children and pushed to its parent's list (or
\* made the root), nextLocalId is raised past a local id, the children are
\* restored in order, and the node's list becomes the ids of the
\* snapshot's children.
RECURSIVE restoreSubtree(_, _, _)
restoreSubtree(t, parentId, snapshot) ==
  LET node == [id |-> snapshot.id, name |-> snapshot.name, kind |-> snapshot.kind,
               parentId |-> parentId, children |-> <<>>,
               fromSnapshot |-> snapshot.fromSnapshot,
               originalName |-> snapshot.originalName,
               originalParentId |-> snapshot.originalParentId]
      t1 == MapSet(t, node.id, node)
      t2 == IF parentId # NULL
            THEN IF Has(t1, parentId)
                 THEN [t1 EXCEPT !.nodes[parentId].children = Append(@, node.id)]
                 ELSE t1
            ELSE [t1 EXCEPT !.rootId = node.id]
      numeric == IF node.fromSnapshot THEN -1 ELSE MatchLocalId(node.id)
      t3 == IF numeric >= t2.nextLocalId THEN [t2 EXCEPT !.nextLocalId = numeric + 1]
            ELSE t2
      RECURSIVE each(_, _)
      each(tt, kids) ==
        IF Len(kids) = 0 THEN tt
        ELSE each(restoreSubtree(tt, node.id, kids[1]), Tail(kids))
      t4 == each(t3, snapshot.children)
  IN  [t4 EXCEPT !.nodes[node.id].children =
         [k \in 1..Len(snapshot.children) |-> snapshot.children[k].id]]

\* ------------------------------------------------- diff.ts (unnamed/part_001)

\* path ? path.split('/').length : 0
pathDepth(path) ==
  IF Len(path) = 0 THEN 0
  ELSE Cardinality({i \in 1..Len(path) : path[i] = "/"}) + 1

\* node.parentId ? pathOf(tree, node.parentId) : ''
ParentPath(t, id) ==
  IF t.nodes[id].parentId = NULL THEN [path |-> <<>>, err |-> "none"]
  ELSE pathOf(t, t.nodes[id].parentId)

\* tree.originalPaths.get(id) ?? original.name
FromPath(t, id) ==
  IF id \in DOMAIN t.originalPaths THEN t.originalPaths[id] ELSE t.originalNodes[id].name

CreateOp(t, id) ==
  [type |-> "create", parentPath |-> ParentPath(t, id).path,
   name |-> t.nodes[id].name, kind |-> t.nodes[id].kind]

MoveOp(t, id) ==
  [type |-> "move", id |-> id, kind |-> t.nodes[id].kind,
   fromPath |-> FromPath(t, id), toParentPath |-> ParentPath(t, id).path]

RenameOp(t, id) ==
  [type |-> "rename", id |-> id, kind |-> t.nodes[id].kind,
   fromPath |-> FromPath(t, id), toPath |-> pathOf(t, id).path,
   fromName |-> t.originalNodes[id].name, toName |-> t.nodes[id].name]

\* recursive is true for a folder and undefined for a file
DeleteOp(t, id) ==
  [type |-> "delete", id |-> id, kind |-> t.originalNodes[id].kind,
   atPath |-> FromPath(t, id),
   recursive |-> IF t.originalNodes[id].kind = "folder" THEN "true" ELSE "undefined"]

\* The ids for which the tree.nodes.forEach pass pushes a create / move /
\* rename op, in Map order.
CreatedIds(t) == SelectSeq(t.order, LAMBDA id : ~t.nodes[id].fromSnapshot)

MovedIds(t) ==
  SelectSeq(t.order, LAMBDA id :
    /\ t.nodes[id].fromSnapshot
    /\ id \in DOMAIN t.originalNodes
    /\ t.originalNodes[id].parentId # t.nodes[id].parentId)

\* the rename test as the else-branch of the move test: a moved node gets no
\* rename op
RenamedIdsUnlessMoved(t) ==
  SelectSeq(t.order, LAMBDA id :
    /\ t.nodes[id].fromSnapshot
    /\ id \in DOMAIN t.originalNodes
    /\ t.originalNodes[id].parentId = t.nodes[id].parentId
    /\ t.originalNodes[id].name # t.nodes[id].name)

RenamedIds(t) ==
  SelectSeq(t.order, LAMBDA id :
    /\ t.nodes[id].fromSnapshot
    /\ id \in DOMAIN t.originalNodes
    /\ t.originalNodes[id].name # t.nodes[id].name)

\* deletedIds, in the order of originalNodes
DeletedIds(t) == SelectSeq(t.originalOrder, LAMBDA id : ~Has(t, id))

\* the deleted ids that get a delete op: those whose original parent is not
\* itself deleted
DeleteRootIds(t) ==
  SelectSeq(DeletedIds(t), LAMBDA id :
    ~(/\ t.originalNodes[id].parentId # NULL
      /\ t.originalNodes[id].parentId \in Range(DeletedIds(t))))

CompareCreate(a, b) ==
  LET depthDiff == pathDepth(a.parentPath) - pathDepth(b.parentPath)
  IN  IF depthDiff # 0 THEN depthDiff ELSE localeCompare(a.name, b.name)

CompareMove(a, b) ==
  LET depthDiff == pathDepth(a.toParentPath) - pathDepth(b.toParentPath)
  IN  IF depthDiff # 0 THEN depthDiff ELSE localeCompare(a.id, b.id)

CompareRename(a, b) == localeCompare(a.toPath, b.toPath)

\* the delete comparator with the depth difference the other way round
CompareDeleteAscending(a, b) ==
  LET depthDiff == pathDepth(a.atPath) - pathDepth(b.atPath)
  IN  IF depthDiff # 0 THEN depthDiff ELSE localeCompare(a.id, b.id)

CompareDelete(a, b) ==
  LET depthDiff == pathDepth(b.atPath) - pathDepth(a.atPath)
  IN  IF depthDiff # 0 THEN depthDiff ELSE localeCompare(a.id, b.id)

\* generateDiff never returns when a pathOf it calls never returns.
generateDiffDiverges(t) ==
  \/ \E i \in 1..Len(CreatedIds(t)) : ParentPath(t, CreatedIds(t)[i]).err = "diverges"
  \/ \E i \in 1..Len(MovedIds(t)) : ParentPath(t, MovedIds(t)[i]).err = "diverges"
  \/ \E i \in 1..Len(RenamedIds(t)) : pathOf(t, RenamedIds(t)[i]).err = "diverges"

\* generateDiff that reports the ops only on every other call, as if a diff
\* once shown were taken as seen
generateDiffEveryOtherTime(t) ==
  LET created   == [i \in 1..Len(CreatedIds(t)) |-> CreateOp(t, CreatedIds(t)[i])]
      moved     == [i \in 1..Len(MovedIds(t)) |-> MoveOp(t, MovedIds(t)[i])]
      renamed   == [i \in 1..Len(RenamedIds(t)) |-> RenameOp(t, RenamedIds(t)[i])]
      deleted   == [i \in 1..Len(DeleteRootIds(t)) |-> DeleteOp(t, DeleteRootIds(t)[i])]
      createOps == StableSort(created,
                     [i \in 1..Len(created) |->
                        [j \in 1..Len(created) |-> CompareCreate(created[i], created[j])]])
      moveOps   == StableSort(moved,
                     [i \in 1..Len(moved) |->
                        [j \in 1..Len(moved) |-> CompareMove(moved[i], moved[j])]])
      renameOps == StableSort(renamed,
                     [i \in 1..Len(renamed) |->
                        [j \in 1..Len(renamed) |-> CompareRename(renamed[i], renamed[j])]])
      deleteOps == StableSort(deleted,
                     [i \in 1..Len(deleted) |->
                        [j \in 1..Len(deleted) |-> CompareDelete(deleted[i], deleted[j])]])
  IN  [ops |-> IF t.diffSequence % 2 = 0
                THEN createOps \o moveOps \o renameOps \o deleteOps
                ELSE <<>>,
       baseRoot |-> t.snapshotRootPath,
       uid |-> t.diffSequence,
       t |-> [t EXCEPT !.diffSequence = @ + 1]]

\* generateDiff(tree): the ops of the diff, the uid number of its meta, and
\* the tree it leaves (diffSequence advanced).
generateDiff(t) ==
  LET created   == [i \in 1..Len(CreatedIds(t)) |-> CreateOp(t, CreatedIds(t)[i])]
      moved     == [i \in 1..Len(MovedIds(t)) |-> MoveOp(t, MovedIds(t)[i])]
      renamed   == [i \in 1..Len(RenamedIds(t)) |-> RenameOp(t, RenamedIds(t)[i])]
      deleted   == [i \in 1..Len(DeleteRootIds(t)) |-> DeleteOp(t, DeleteRootIds(t)[i])]
      createOps == StableSort(created,
                     [i \in 1..Len(created) |->
                        [j \in 1..Len(created) |-> CompareCreate(created[i], created[j])]])
      moveOps   == StableSort(moved,
                     [i \in 1..Len(moved) |->
                        [j \in 1..Len(moved) |-> CompareMove(moved[i], moved[j])]])
      renameOps == StableSort(renamed,
                     [i \in 1..Len(renamed) |->
                        [j \in 1..Len(renamed) |-> CompareRename(renamed[i], renamed[j])]])
      deleteOps == StableSort(deleted,
                     [i \in 1..Len(deleted) |->
                        [j \in 1..Len(deleted) |-> CompareDelete(deleted[i], deleted[j])]])
  IN  [ops |-> createOps \o moveOps \o renameOps \o deleteOps,
       baseRoot |-> t.snapshotRootPath,
       uid |-> t.diffSequence,
       t |-> [t EXCEPT !.diffSequence = @ + 1]]

\* ------------------------------------------------------ main/diffExecutor.ts

\* treePath.split('/'): the segments between the slashes, empty ones included
RECURSIVE SplitSlash(_)
SplitSlash(path) ==
  IF \A i \in 1..Len(path) : path[i] # "/" THEN <<path>>
  ELSE LET k == CHOOSE i \in 1..Len(path) :
                  path[i] = "/" /\ \A j \in 1..(i - 1) : path[j] # "/"
       IN  <<SubSeq(path, 1, k - 1)>> \o SplitSlash(SubSeq(path, k + 1, Len(path)))

\* path.basename(diff.baseRoot)
BaseName(path) == SplitSlash(path)[Len(SplitSlash(path))]

\* inferRootName(diff): the first segment the first telling op names, else
\* the basename of baseRoot
RECURSIVE inferRootNameFrom(_, _)
inferRootNameFrom(ops, baseRoot) ==
  IF Len(ops) = 0 THEN BaseName(baseRoot)
  ELSE LET op == ops[1]
           lead == SplitSlash(IF op.type = "create" THEN op.parentPath
                              ELSE IF op.type = "delete" THEN op.atPath
                              ELSE op.fromPath)[1]
       IN  IF op.type = "create" /\ Len(op.parentPath) > 0 THEN lead
           ELSE IF op.type # "create" /\ Len(lead) > 0 THEN lead
           ELSE inferRootNameFrom(Tail(ops), baseRoot)

inferRootName(diff) == inferRootNameFrom(diff.ops, diff.baseRoot)

\* normaliseSegments(treePath): the non-empty segments, the leading root
\* name dropped
normaliseSegments(rootName, treePath) ==
  LET segments == SelectSeq(SplitSlash(treePath), LAMBDA x : Len(x) > 0)
  IN  IF Len(segments) > 0 /\ segments[1] = rootName THEN Tail(segments)
      ELSE segments

\* resolver.toAbsolute / toParentAbsolute: path.join(baseRoot, ...segments).
\* An absolute path under baseRoot is the sequence of its segments below
\* baseRoot; <<>> is baseRoot itself.
toAbsolute(rootName, treePath) == normaliseSegments(rootName, treePath)

toParentAbsolute(rootName, treePath) == normaliseSegments(rootName, treePath)

\* path.dirname and path.basename of an absolute path under baseRoot
DirName(abs) == IF Len(abs) = 0 THEN <<>> ELSE SubSeq(abs, 1, Len(abs) - 1)

AbsBaseName(abs, baseRoot) ==
  IF Len(abs) = 0 THEN BaseName(baseRoot) ELSE abs[Len(abs)]

\* The file system below baseRoot: the set of the entries [path, kind] that
\* exist, at most one per path.
IsUnder(dir, abs) == Len(dir) <= Len(abs) /\ SubSeq(abs, 1, Len(dir)) = dir

Paths(fs) == {e.path : e \in fs}

\* pathExists(targetPath)
pathExists(fs, abs) == abs \in Paths(fs)

IsFile(fs, abs) == [path |-> abs, kind |-> "file"] \in fs

IsFolder(fs, abs) == [path |-> abs, kind |-> "folder"] \in fs

\* fs.mkdir(path, {recursive: true}) throws when a file stands at the path
\* or at one of its ancestors
fsMkdirMustFail(fs, abs) == \E k \in 0..Len(abs) : IsFile(fs, SubSeq(abs, 1, k))

\* fs.mkdir(path, {recursive: true}), when it succeeds
fsMkdir(fs, abs) ==
  fs \cup {[path |-> SubSeq(abs, 1, k), kind |-> "folder"] :
             k \in {j \in 0..Len(abs) : ~pathExists(fs, SubSeq(abs, 1, j))}}

\* fs.writeFile(path, '', {flag: 'w'}) throws when a folder stands at the
\* path or its directory is not a folder
fsWriteFileMustFail(fs, abs) ==
  IsFolder(fs, abs) \/ Len(abs) = 0 \/ ~IsFolder(fs, SubSeq(abs, 1, Len(abs) - 1))

\* fs.writeFile(path, '', {flag: 'w'}), when it succeeds
fsWriteFile(fs, abs) == fs \cup {[path |-> abs, kind |-> "file"]}

\* fs.rename(source, target) throws when the source is missing, when the
\* target lies inside the source, when the target's directory is not a
\* folder, and when another entry stands at the target that is not of the
\* source's kind or is a folder that is not empty (rename(2): ENOTDIR,
\* EISDIR, ENOTEMPTY)
fsRenameMustFail(fs, source, target) ==
  \/ ~pathExists(fs, source)
  \/ source # target /\ IsUnder(source, target)
  \/ Len(target) = 0
  \/ ~IsFolder(fs, SubSeq(target, 1, Len(target) - 1))
  \/ /\ source # target
     /\ pathExists(fs, target)
     /\ \/ IsFolder(fs, source) # IsFolder(fs, target)
        \/ \E e \in fs : IsUnder(target, e.path) /\ e.path # target

\* fs.rename(source, target), when it succeeds: the source's subtree stands
\* at the target, in place of what was there
fsRename(fs, source, target) ==
  {[path |-> target \o SubSeq(e.path, Len(source) + 1, Len(e.path)), kind |-> e.kind] :
     e \in {x \in fs : IsUnder(source, x.path)}}
    \cup {e \in fs : ~IsUnder(source, e.path) /\ ~IsUnder(target, e.path)}

\* fs.rm(path, {recursive, force: true}) throws on a folder when recursive
\* is not set
fsRmMustFail(fs, abs, recursive) == IsFolder(fs, abs) /\ ~recursive

\* fs.rm(path, {recursive, force: true}), when it succeeds
fsRm(fs, abs) == {e \in fs : ~IsUnder(abs, e.path)}

\* resolveRenameSourcePath(op, resolver)
resolveRenameSourcePath(fs, rootName, op) ==
  IF pathExists(fs, toAbsolute(rootName, op.fromPath))
  THEN toAbsolute(rootName, op.fromPath)
  ELSE Append(DirName(toAbsolute(rootName, op.toPath)), op.fromName)

\* resolveMoveTargetPath(op, resolver)
resolveMoveTargetPath(rootName, baseRoot, op) ==
  Append(toParentAbsolute(rootName, op.toParentPath),
         AbsBaseName(toAbsolute(rootName, op.fromPath), baseRoot))

\* The path an op works on (the source of a move or rename), and the path
\* the loop of applyDiff names targetPath.
OpSource(fs, rootName, op) ==
  CASE op.type = "move"   -> toAbsolute(rootName, op.fromPath)
    [] op.type = "rename" -> resolveRenameSourcePath(fs, rootName, op)
    [] op.type = "delete" -> toAbsolute(rootName, op.atPath)
    [] op.type = "create" -> <<>>

OpTarget(rootName, baseRoot, op) ==
  CASE op.type = "create" -> Append(toParentAbsolute(rootName, op.parentPath), op.name)
    [] op.type = "move"   -> resolveMoveTargetPath(rootName, baseRoot, op)
    [] op.type = "rename" -> toAbsolute(rootName, op.toPath)
    [] op.type = "delete" -> toAbsolute(rootName, op.atPath)

\* The file-system calls of one op in the loop of applyDiff: the first call
\* (the mkdir; the rm of a delete) is bound to throw
OpFirstCallMustFail(fs, rootName, baseRoot, op) ==
  LET target == OpTarget(rootName, baseRoot, op)
  IN  CASE op.type = "create" /\ op.kind = "folder" -> fsMkdirMustFail(fs, target)
        [] op.type = "delete" -> fsRmMustFail(fs, target, op.recursive = "true")
        [] OTHER -> fsMkdirMustFail(fs, DirName(target))

\* the disk after the first call
OpFirstCall(fs, rootName, baseRoot, op) ==
  LET target == OpTarget(rootName, baseRoot, op)
  IN  CASE op.type = "create" /\ op.kind = "folder" -> fsMkdir(fs, target)
        [] op.type = "delete" -> fsRm(fs, target)
        [] OTHER -> fsMkdir(fs, DirName(target))

\* an op has a second call unless it creates a folder or deletes
OpHasSecondCall(op) ==
  ~(op.type = "delete" \/ (op.type = "create" /\ op.kind = "folder"))

\* the second call (the writeFile of a file create, the rename of a move or
\* rename) is bound to throw on the disk the first call left; source is
\* the path resolved before the first call
OpSecondCallMustFail(fs, rootName, baseRoot, op, source) ==
  LET target == OpTarget(rootName, baseRoot, op)
  IN  IF op.type = "create" THEN fsWriteFileMustFail(fs, target)
      ELSE fsRenameMustFail(fs, source, target)

\* the disk after the second call
OpSecondCall(fs, rootName, baseRoot, op, source) ==
  LET target == OpTarget(rootName, baseRoot, op)
  IN  IF op.type = "create" THEN fsWriteFile(fs, target)
      ELSE fsRename(fs, source, target)

\* The disk as the snapshot was loaded from it: one entry per snapshot node.
SnapshotDisk(t) ==
  {[path |-> normaliseSegments(t.originalNodes[t.rootId].name, t.originalPaths[id]),
    kind |-> t.originalNodes[id].kind] : id \in DOMAIN t.originalPaths}

\* The disk after one op of a diff has run, with no fault of the file
\* system other than those the disk itself forces.
DiskAfterOp(fs, rootName, baseRoot, op) ==
  LET source == OpSource(fs, rootName, op)
      first  == OpFirstCall(fs, rootName, baseRoot, op)
  IN  IF OpFirstCallMustFail(fs, rootName, baseRoot, op) THEN fs
      ELSE IF ~OpHasSecondCall(op) THEN first
      ELSE IF OpSecondCallMustFail(first, rootName, baseRoot, op, source) THEN first
      ELSE OpSecondCall(first, rootName, baseRoot, op, source)

\* The disk after the first n ops of a diff have run in order.
RECURSIVE DiskAfter(_, _, _, _, _)
DiskAfter(fs, rootName, baseRoot, ops, n) ==
  IF n = 0 THEN fs
  ELSE DiskAfterOp(DiskAfter(fs, rootName, baseRoot, ops, n - 1),
                   rootName, baseRoot, ops[n])

\* ------------------------------------------------- path.ts: normalisePath

\* [A-Za-z] among the characters the model uses
Letters == {Alphabet[i] : i \in 15..Len(Alphabet)} \cup DOMAIN UpperToLower

\* raw.replace(/\\/g, '/')
ReplaceBackslashes(raw) == [i \in 1..Len(raw) |-> IF raw[i] = "\\" THEN "/" ELSE raw[i]]

\* s.replace(/\/+/g, '/')
RECURSIVE CollapseSlashes(_)
CollapseSlashes(s) ==
  IF Len(s) <= 1 THEN s
  ELSE IF s[1] = "/" /\ s[2] = "/" THEN CollapseSlashes(Tail(s))
  ELSE <<s[1]>> \o CollapseSlashes(Tail(s))

\* windowsDrivePattern.test(s)
HasDrive(s) == Len(s) >= 2 /\ s[1] \in Letters /\ s[2] = ":"

\* string.slice(n)
Slice(s, n) == SubSeq(s, n + 1, Len(s))

\* s.replace(/\/$/, '')
DropTrailingSlash(s) ==
  IF Len(s) > 0 /\ s[Len(s)] = "/" THEN SubSeq(s, 1, Len(s) - 1) ELSE s

\* normaliseSegments(segments) of path.ts: [err, stack]
RECURSIVE normalisePathSegments(_, _)
normalisePathSegments(segments, stack) ==
  IF Len(segments) = 0 THEN [err |-> "none", stack |-> stack]
  ELSE IF Len(segments[1]) = 0 \/ segments[1] = <<".">>
  THEN normalisePathSegments(Tail(segments), stack)
  ELSE IF segments[1] = <<".", ".">>
  THEN IF Len(stack) = 0 THEN [err |-> "EscapesRoot", stack |-> <<>>]
       ELSE normalisePathSegments(Tail(segments), SubSeq(stack, 1, Len(stack) - 1))
  ELSE normalisePathSegments(Tail(segments), Append(stack, segments[1]))

\* normaliseInternal(raw, kind): [err, root, segments]; root NULL for null
normaliseInternal(raw, kind) ==
  LET trimmed    == CollapseSlashes(ReplaceBackslashes(raw))
      hasDrive   == HasDrive(trimmed)
      isAbsolute == (Len(trimmed) > 0 /\ trimmed[1] = "/") \/ hasDrive
      withoutTrailing ==
        IF Len(trimmed) > 1 /\ trimmed[Len(trimmed)] = "/"
        THEN SubSeq(trimmed, 1, Len(trimmed) - 1)
        ELSE trimmed
      root == IF hasDrive THEN SubSeq(withoutTrailing, 1, 2)
              ELSE IF Len(withoutTrailing) > 0 /\ withoutTrailing[1] = "/"
              THEN <<"/">>
              ELSE NULL
      rest == IF root # NULL
              THEN Slice(withoutTrailing, IF root = <<"/">> THEN 1 ELSE Len(root) + 1)
              ELSE withoutTrailing
      rawSegments == IF Len(rest) = 0 THEN <<>> ELSE SplitSlash(rest)
      segments    == normalisePathSegments(rawSegments, <<>>)
  IN  IF kind = "RelativeOnly" /\ isAbsolute
      THEN [err |-> "ExpectedRelative", root |-> NULL, segments |-> <<>>]
      ELSE [err |-> segments.err, root |-> root, segments |-> segments.stack]

\* normalisePath(raw, kind): [err, path]
normalisePath(raw, kind) ==
  LET n    == normaliseInternal(raw, kind)
      body == JoinSlash(n.segments)
  IN  IF n.err # "none" THEN [err |-> n.err, path |-> NULL]
      ELSE IF n.root = NULL
      THEN [err |-> "none", path |-> IF Len(body) > 0 THEN body ELSE <<".">>]
      ELSE IF n.root = <<"/">>
      THEN [err |-> "none",
            path |-> IF Len(DropTrailingSlash(<<"/">> \o body)) > 0
                     THEN DropTrailingSlash(<<"/">> \o body)
                     ELSE <<"/">>]
      ELSE LET prefix == IF n.root[Len(n.root)] = ":" THEN n.root
                         ELSE n.root \o <<":">>
           IN  [err |-> "none",
                path |-> DropTrailingSlash(prefix \o <<"/">> \o body)]

\* ------------------------------------------------------------ the program

\* The snapshot the tree is built from (ids chosen so that the Map order of
\* the nodes differs from their id order and their depth order):
\*   p/            r
\*     s/          n4
\*     d/          n1
\*       s/        n2
\*         f.t     n3
SnapshotNode(id, name, kind, children) ==
  [id |-> id, name |-> name, kind |-> kind, children |-> children]

Snapshot ==
  [rootPath |-> <<"/", "p">>,
   tree |->
     SnapshotNode(<<"r">>, <<"p">>, "folder", <<
       SnapshotNode(<<"n", "4">>, <<"s">>, "folder", <<>>),
       SnapshotNode(<<"n", "1">>, <<"d">>, "folder", <<
         SnapshotNode(<<"n", "2">>, <<"s">>, "folder", <<
           SnapshotNode(<<"n", "3">>, <<"f", ".", "t">>, "file", <<>>) >>) >>) >>)]

\* the names callers pass: two valid ones, and an empty, a blank, an
\* invalid-character and a reserved one
NameInputs ==
  {<<"s">>, <<"f", ".", "t">>, <<>>, <<" ">>, <<"s", "/">>, <<"C", "o", "n">>}

Kinds == {"file", "folder"}

\* the ids callers pass: every id of the tree and one that names no node
UnknownId == <<"z">>

IdInputs == DOMAIN tree.nodes \cup {UnknownId}

\* the ids callers supply to createNode: none, or a local id no node holds
\* (the id a create was given before, when that create is redone)
PayloadIds ==
  {NULL} \cup {LocalId(k) : k \in {j \in 1..tree.nextLocalId : ~Has(tree, LocalId(j))}}

\* One call of a tree operation with outcome r; a call that never returns
\* has no next state.
\* no applyDiff call is in progress
NoRun == [pc |-> "idle"]

\* no tree is held as objects, no subtree is serialised, no undo / redo
\* manager is created
NoHeap == [pc |-> "idle"]

NoSaved == [pc |-> "idle"]

NoHistory == [pc |-> "idle"]

\* no path is being normalised, no store is created
NoNorm == [pc |-> "idle"]

NoStore == [pc |-> "idle"]

\* the parts of the state that belong to the other operations
Idle(part) ==
  /\ "run" \in part \/ run = NoRun
  /\ "heap" \in part \/ heap = NoHeap
  /\ "saved" \in part \/ saved = NoSaved
  /\ "history" \in part \/ history = NoHistory
  /\ "norm" \in part \/ norm = NoNorm
  /\ "store" \in part \/ store = NoStore

Call(op, r) ==
  /\ steps < MaxSteps
  /\ \E x \in {r} :
       /\ x.err # "diverges"
       /\ tree' = x.t
       /\ last' = [op |-> op, err |-> x.err, ret |-> x.ret, ops |-> <<>>]
  /\ steps' = steps + 1
  /\ UNCHANGED <<run, heap, saved, history, norm, store>>

CreateNode(parentId, name, kind, id) ==
  /\ tree.nextLocalId <= MaxLocalId
  /\ Call("create", createNode(tree, parentId, name, kind, id))

RenameNode(id, desiredName) == Call("rename", renameNode(tree, id, desiredName))

MoveNode(id, targetParentId) == Call("move", moveNode(tree, id, targetParentId))

DeleteNode(id) == Call("delete", deleteNode(tree, id))

GenerateDiff ==
  /\ tree.diffSequence < MaxDiffSeq
  /\ ~generateDiffDiverges(tree)
  /\ LET d == generateDiff(tree)
     IN  /\ tree' = d.t
         /\ last' = [op |-> "diff", err |-> "none", ret |-> NULL, ops |-> d.ops]
  /\ UNCHANGED <<steps, run, heap, saved, history, norm, store>>

Init ==
  /\ tree = buildSandboxTree(Snapshot)
  /\ last = [op |-> "build", err |-> "none", ret |-> NULL, ops |-> <<>>]
  /\ steps = 0
  /\ Idle({})

Next ==
  \/ \E id \in IdInputs : DeleteNode(id)
  \/ \E id \in IdInputs, target \in IdInputs : MoveNode(id, target)
  \/ \E id \in IdInputs, n \in NameInputs : RenameNode(id, n)
  \/ \E p \in IdInputs, n \in NameInputs, k \in Kinds, i \in PayloadIds :
       CreateNode(p, n, k, i)
  \/ GenerateDiff

Spec == Init /\ [][Next]_vars

\* The program after one call more: the folder n2 (p/d/s, holding the file
\* f.t) has been moved into the empty folder n4 (p/s).
InitMoved ==
  /\ tree = moveNode(buildSandboxTree(Snapshot), <<"n", "2">>, <<"n", "4">>).t
  /\ last = [op |-> "move", err |-> "none", ret |-> <<"n", "2">>, ops |-> <<>>]
  /\ steps = 0
  /\ Idle({})

SpecMoved == InitMoved /\ [][Next]_vars

\* ------------------------------------------------- the program: applyDiff

\* The trees whose diffs are applied, each reached from the build by
\* successful calls: two deletes (the file f.t, the folder p/s); the file
\* f.t moved into p/s and renamed; a folder created, the file moved into it
\* and renamed; the folder p/d/s moved to the root, which merges it into p/s;
\* a file created in p/s and the folder p/d deleted.
Built == buildSandboxTree(Snapshot)

TreeTwoDeletes == deleteNode(deleteNode(Built, <<"n", "3">>).t, <<"n", "4">>).t

TreeMoveRename ==
  renameNode(moveNode(Built, <<"n", "3">>, <<"n", "4">>).t, <<"n", "3">>, <<"s">>).t

TreeCreateMoveRename ==
  renameNode(
    moveNode(createNode(Built, <<"r">>, <<"s">>, "folder", NULL).t,
             <<"n", "3">>, LocalId(1)).t,
    <<"n", "3">>, <<"s">>).t

TreeMerge == moveNode(Built, <<"n", "2">>, <<"r">>).t

TreeCreateFileDelete ==
  deleteNode(createNode(Built, <<"n", "4">>, <<"f", ".", "t">>, "file", NULL).t,
             <<"n", "1">>).t

DiffOf(t) == [ops |-> generateDiff(t).ops, baseRoot |-> generateDiff(t).baseRoot]

DiffInputs ==
  {DiffOf(TreeTwoDeletes), DiffOf(TreeMoveRename), DiffOf(TreeCreateMoveRename),
   DiffOf(TreeMerge), DiffOf(TreeCreateFileDelete)}

\* The disks a diff is applied to: the snapshot's, and the snapshot's after
\* one of its entries was removed behind the program's back.
DiskInputs ==
  {SnapshotDisk(Built)}
    \cup {fsRm(SnapshotDisk(Built), e.path) :
            e \in {x \in SnapshotDisk(Built) : Len(x.path) > 0}}

\* DiffExecutionOptions: which of the optional callbacks are supplied
OptionInputs ==
  [confirmApply : BOOLEAN, onLockedFile : BOOLEAN, persistSnapshot : BOOLEAN]

LockStates == {"ok", "locked", "missing"}

Decisions == {"retry", "skip", "abort"}

\* where a file-system call of an op throws for a reason the disk does not
\* show (EPERM, EIO, ...): nowhere, at the first call, at the second
Faults == {"none", "first", "second"}

\* describeOp(op, resolver): the text, by its verb and the paths it shows
describeOp(rootName, op) ==
  CASE op.type = "create" ->
         [form |-> "description", verb |-> "Create", kind |-> op.kind,
          paths |-> <<Append(toParentAbsolute(rootName, op.parentPath), op.name)>>]
    [] op.type = "move" ->
         [form |-> "description", verb |-> "Move", kind |-> op.kind,
          paths |-> <<toAbsolute(rootName, op.fromPath),
                      toParentAbsolute(rootName, op.toParentPath)>>]
    [] op.type = "rename" ->
         [form |-> "description", verb |-> "Rename", kind |-> op.kind,
          paths |-> <<toAbsolute(rootName, op.fromPath),
                      toAbsolute(rootName, op.toPath)>>]
    [] op.type = "delete" ->
         [form |-> "description", verb |-> "Delete", kind |-> op.kind,
          paths |-> <<toAbsolute(rootName, op.atPath)>>]

\* a rename is flagged target-exists whenever its target exists, its own
\* source included
DryRunPreconditionFlagsSelf(fs, rootName, baseRoot, op) ==
  LET target == OpTarget(rootName, baseRoot, op)
      source == OpSource(fs, rootName, op)
  IN  CASE op.type = "create" ->
             IF pathExists(fs, target)
             THEN [precondition |-> "target-exists", message |-> "Target already exists"]
             ELSE [precondition |-> "ok", message |-> "undefined"]
        [] op.type \in {"move", "rename"} ->
             IF ~pathExists(fs, source)
             THEN [precondition |-> "missing-source", message |-> "Source path is missing"]
             ELSE IF pathExists(fs, target)
             THEN [precondition |-> "target-exists",
                   message |-> "Destination already exists"]
             ELSE [precondition |-> "ok", message |-> "undefined"]
        [] op.type = "delete" ->
             IF ~pathExists(fs, target)
             THEN [precondition |-> "missing-source", message |-> "undefined"]
             ELSE [precondition |-> "ok", message |-> "undefined"]

\* The precondition and message buildDryRunReport finds for one op.
DryRunPrecondition(fs, rootName, baseRoot, op) ==
  LET target == OpTarget(rootName, baseRoot, op)
      source == OpSource(fs, rootName, op)
  IN  CASE op.type = "create" ->
             IF pathExists(fs, target)
             THEN [precondition |-> "target-exists", message |-> "Target already exists"]
             ELSE [precondition |-> "ok", message |-> "undefined"]
        [] op.type = "move" ->
             IF ~pathExists(fs, source)
             THEN [precondition |-> "missing-source", message |-> "Source path is missing"]
             ELSE IF pathExists(fs, target)
             THEN [precondition |-> "target-exists",
                   message |-> "Destination already exists"]
             ELSE [precondition |-> "ok", message |-> "undefined"]
        [] op.type = "rename" ->
             IF ~pathExists(fs, source)
             THEN [precondition |-> "missing-source", message |-> "Source path is missing"]
             ELSE IF pathExists(fs, target) /\ target # source
             THEN [precondition |-> "target-exists",
                   message |-> "Destination already exists"]
             ELSE [precondition |-> "ok", message |-> "undefined"]
        [] op.type = "delete" ->
             IF ~pathExists(fs, target)
             THEN [precondition |-> "missing-source", message |-> "undefined"]
             ELSE [precondition |-> "ok", message |-> "undefined"]

\* buildDryRunReport(diff): the report, on the disk as it is
buildDryRunReport(diff, fs) ==
  LET rootName == inferRootName(diff)
      pre == [i \in 1..Len(diff.ops) |->
                DryRunPrecondition(fs, rootName, diff.baseRoot, diff.ops[i])]
      bad == SelectSeq([i \in 1..Len(diff.ops) |-> i],
                       LAMBDA i : pre[i].precondition # "ok")
  IN  [baseRoot |-> diff.baseRoot,
       rootName |-> rootName,
       operations |->
         [i \in 1..Len(diff.ops) |->
            [op |-> diff.ops[i],
             targetPath |-> OpTarget(rootName, diff.baseRoot, diff.ops[i]),
             description |-> describeOp(rootName, diff.ops[i]),
             precondition |-> pre[i].precondition,
             message |-> pre[i].message]],
       issues |->
         [k \in 1..Len(bad) |->
            [description |-> describeOp(rootName, diff.ops[bad[k]]),
             text |-> IF pre[bad[k]].message # "undefined" THEN pre[bad[k]].message
                      ELSE pre[bad[k]].precondition]]]

\* every move, rename and delete is checked for a lock, folders too
shouldCheckLockFolders(op) == op.type # "create"

\* shouldCheckLock(op)
shouldCheckLock(op) == op.kind = "file" /\ op.type # "create"

\* a result's targetPath when it is a path, in the shape of a description
PathText(abs) == [form |-> "path", verb |-> "none", kind |-> "none", paths |-> <<abs>>]

\* recordResult(results, op, status, targetPath, message); targetPath is a
\* path, or the description of the op for an op passed over after an abort
\* recordResult that puts the new entry in front of the others
recordResultInFront(results, op, status, targetPath, message) ==
  <<[type |-> op.type, kind |-> op.kind, status |-> status,
     targetPath |-> targetPath, message |-> message]>> \o results

\* results.push({type: op.type, kind: op.kind, status, targetPath, message})
recordResult(results, op, status, targetPath, message) ==
  Append(results, [type |-> op.type, kind |-> op.kind, status |-> status,
                   targetPath |-> targetPath, message |-> message])


\* The state of one applyDiff(diff, options) call: the disk, the report of
\* the dry run, the loop's index, results and aborted flag, what the call
\* has done so far (log: lock probes, handler calls, file-system calls,
\* snapshot generation and persistence, each with the index of its op) and
\* the response it returns.
NoResponse == [ok |-> FALSE, results |-> <<>>, aborted |-> FALSE,
               snapshot |-> FALSE, persisted |-> FALSE, returned |-> FALSE]

NewRun(diff, options, fs) ==
  [pc |-> "called", diff |-> diff, options |-> options, disk |-> fs, disk0 |-> fs,
   report |-> <<>>, confirmed |-> "unasked", index |-> 1, results |-> <<>>,
   aborted |-> FALSE, log |-> <<>>, response |-> NoResponse]

Event(i, ev) == [i |-> i, ev |-> ev, lockState |-> "none"]

\* checkLock(path) was called for op i and returned lockState
ProbeEvent(i, lockState) == [i |-> i, ev |-> "probe", lockState |-> lockState]

\* the number of events ev the log holds for op i
Events(r, i, ev) == Cardinality({k \in 1..Len(r.log) : r.log[k] = Event(i, ev)})

\* const dryRunReport = await buildDryRunReport(diff)
DryRun ==
  /\ run.pc = "called"
  /\ run' = [run EXCEPT !.report = buildDryRunReport(run.diff, run.disk),
                        !.pc = IF run.options.confirmApply THEN "confirm" ELSE "loop"]
  /\ UNCHANGED <<tree, last, steps, heap, saved, history, norm, store>>

\* the confirmApply callback's answer is ignored
ConfirmApplyIgnored(proceed) ==
  /\ run.pc = "confirm"
  /\ run' = [run EXCEPT !.confirmed = IF proceed THEN "yes" ELSE "no", !.pc = "loop"]
  /\ UNCHANGED <<tree, last, steps, heap, saved, history, norm, store>>

\* const proceed = await options.confirmApply(dryRunReport)
ConfirmApply(proceed) ==
  /\ run.pc = "confirm"
  /\ run' = IF proceed
            THEN [run EXCEPT !.confirmed = "yes", !.pc = "loop"]
            ELSE [run EXCEPT !.confirmed = "no", !.pc = "done",
                             !.response = [NoResponse EXCEPT !.aborted = TRUE,
                                                             !.returned = TRUE]]
  /\ UNCHANGED <<tree, last, steps, heap, saved, history, norm, store>>

\* the loop is at an op
InLoop == run.pc = "loop" /\ run.index <= Len(run.diff.ops)

\* the run r with the result of its current op recorded, at the next op
Recorded(r, status, targetPath, message) ==
  [r EXCEPT !.results = recordResult(@, r.diff.ops[r.index], status, targetPath, message),
            !.index = @ + 1,
            !.pc = "loop"]

\* if (aborted) { recordResult(..., 'aborted', describeOp(op, resolver)); continue; }
LoopAborted ==
  /\ InLoop
  /\ run.aborted
  /\ run' = Recorded(run, "aborted",
                     describeOp(run.report.rootName, run.diff.ops[run.index]),
                     "undefined")
  /\ UNCHANGED <<tree, last, steps, heap, saved, history, norm, store>>

\* the precondition is looked at before the aborted flag
LoopPreconditionFailedFirst ==
  /\ InLoop
  /\ run.report.operations[run.index].precondition # "ok"
  /\ run' = Recorded(run, "failed",
                     PathText(run.report.operations[run.index].targetPath),
                     run.report.operations[run.index].message)
  /\ UNCHANGED <<tree, last, steps, heap, saved, history, norm, store>>

\* if (dryRunInfo && dryRunInfo.precondition !== 'ok') { recordResult(...
\* 'failed', dryRunInfo.targetPath, dryRunInfo.message); continue; }
LoopPreconditionFailed ==
  /\ InLoop
  /\ ~run.aborted
  /\ run.report.operations[run.index].precondition # "ok"
  /\ run' = Recorded(run, "failed",
                     PathText(run.report.operations[run.index].targetPath),
                     run.report.operations[run.index].message)
  /\ UNCHANGED <<tree, last, steps, heap, saved, history, norm, store>>

\* a file-system call that throws ends the whole run
PerformOpAbortsOnError(r, fault) ==
  LET op       == r.diff.ops[r.index]
      rootName == r.report.rootName
      baseRoot == r.diff.baseRoot
      target   == PathText(OpTarget(rootName, baseRoot, op))
      source   == OpSource(r.disk, rootName, op)
      first    == OpFirstCall(r.disk, rootName, baseRoot, op)
      one      == [r EXCEPT !.log = Append(@, Event(r.index, "fs"))]
      two      == [one EXCEPT !.log = Append(@, Event(r.index, "fs"))]
  IN  IF fault = "first" \/ OpFirstCallMustFail(r.disk, rootName, baseRoot, op)
      THEN Recorded([one EXCEPT !.aborted = TRUE], "failed", target, "error.message")
      ELSE IF ~OpHasSecondCall(op)
      THEN Recorded([one EXCEPT !.disk = first], "applied", target, "undefined")
      ELSE IF fault = "second"
                \/ OpSecondCallMustFail(first, rootName, baseRoot, op, source)
      THEN Recorded([two EXCEPT !.disk = first, !.aborted = TRUE],
                    "failed", target, "error.message")
      ELSE Recorded([two EXCEPT !.disk = OpSecondCall(first, rootName, baseRoot, op, source)],
                    "applied", target, "undefined")

\* The file-system calls of the current op of r, and its result: applied, or
\* failed in the catch clause when a call throws (fault, or the disk forces
\* it).
PerformOp(r, fault) ==
  LET op       == r.diff.ops[r.index]
      rootName == r.report.rootName
      baseRoot == r.diff.baseRoot
      target   == PathText(OpTarget(rootName, baseRoot, op))
      source   == OpSource(r.disk, rootName, op)
      first    == OpFirstCall(r.disk, rootName, baseRoot, op)
      one      == [r EXCEPT !.log = Append(@, Event(r.index, "fs"))]
      two      == [one EXCEPT !.log = Append(@, Event(r.index, "fs"))]
  IN  IF fault = "first" \/ OpFirstCallMustFail(r.disk, rootName, baseRoot, op)
      THEN Recorded(one, "failed", target, "error.message")
      ELSE IF ~OpHasSecondCall(op)
      THEN Recorded([one EXCEPT !.disk = first], "applied", target, "undefined")
      ELSE IF fault = "second"
                \/ OpSecondCallMustFail(first, rootName, baseRoot, op, source)
      THEN Recorded([two EXCEPT !.disk = first], "failed", target, "error.message")
      ELSE Recorded([two EXCEPT !.disk = OpSecondCall(first, rootName, baseRoot, op, source)],
                    "applied", target, "undefined")

\* The loop body that goes on to the file system when a file is locked and
\* there is no handler.
LoopOpLockedProceeds(lockState, fault) ==
  /\ InLoop
  /\ ~run.aborted
  /\ run.report.operations[run.index].precondition = "ok"
  /\ fault = "second" => OpHasSecondCall(run.diff.ops[run.index])
  /\ LET op     == run.diff.ops[run.index]
         target == PathText(OpTarget(run.report.rootName, run.diff.baseRoot, op))
         probed == [run EXCEPT !.log = Append(@, ProbeEvent(run.index, lockState))]
     IN  IF ~shouldCheckLock(op)
         THEN lockState = "ok" /\ run' = PerformOp(run, fault)
         ELSE IF lockState # "locked" \/ ~run.options.onLockedFile
         THEN run' = PerformOp(probed, fault)
         ELSE /\ fault = "none"
              /\ run' = [probed EXCEPT !.pc = "locked"]
  /\ UNCHANGED <<tree, last, steps, heap, saved, history, norm, store>>

\* The loop body that looks at no precondition.
LoopOpUnchecked(lockState, fault) ==
  /\ InLoop
  /\ ~run.aborted
  /\ fault = "second" => OpHasSecondCall(run.diff.ops[run.index])
  /\ LET op     == run.diff.ops[run.index]
         target == PathText(OpTarget(run.report.rootName, run.diff.baseRoot, op))
         probed == [run EXCEPT !.log = Append(@, ProbeEvent(run.index, lockState))]
     IN  IF ~shouldCheckLock(op)
         THEN lockState = "ok" /\ run' = PerformOp(run, fault)
         ELSE IF lockState # "locked" THEN run' = PerformOp(probed, fault)
         ELSE /\ fault = "none"
              /\ run' = IF run.options.onLockedFile
                        THEN [probed EXCEPT !.pc = "locked"]
                        ELSE Recorded(probed, "failed", target, "File is locked")
  /\ UNCHANGED <<tree, last, steps, heap, saved, history, norm, store>>

\* The loop body for an op whose precondition is ok: the lock probe of a
\* file move / rename / delete, then the file-system calls; a locked file
\* goes to the handler, or fails when there is none.
LoopOp(lockState, fault) ==
  /\ InLoop
  /\ ~run.aborted
  /\ run.report.operations[run.index].precondition = "ok"
  /\ fault = "second" => OpHasSecondCall(run.diff.ops[run.index])
  /\ LET op     == run.diff.ops[run.index]
         target == PathText(OpTarget(run.report.rootName, run.diff.baseRoot, op))
         probed == [run EXCEPT !.log = Append(@, ProbeEvent(run.index, lockState))]
     IN  IF ~shouldCheckLock(op)
         THEN lockState = "ok" /\ run' = PerformOp(run, fault)
         ELSE IF lockState # "locked" THEN run' = PerformOp(probed, fault)
         ELSE /\ fault = "none"
              /\ run' = IF run.options.onLockedFile
                        THEN [probed EXCEPT !.pc = "locked"]
                        ELSE Recorded(probed, "failed", target, "File is locked")
  /\ UNCHANGED <<tree, last, steps, heap, saved, history, norm, store>>

\* a handler loop without exit: the handler is asked again whatever it
\* answers and whatever the probe reports, and so the call never gets past
\* the locked file
OnLockedFileNoExit(decision, lockState, fault) ==
  /\ run.pc = "locked"
  /\ fault = "none"
  /\ Events(run, run.index, "ask") < MaxAsks
  /\ run' = [run EXCEPT !.log = @ \o <<Event(run.index, "ask"),
                                       ProbeEvent(run.index, lockState)>>]
  /\ UNCHANGED <<tree, last, steps, heap, saved, history, norm, store>>

\* a retry leaves the while (true) loop whatever the second probe reports
OnLockedFileRetriesOnce(decision, lockState, fault) ==
  /\ run.pc = "locked"
  /\ fault = "second" => OpHasSecondCall(run.diff.ops[run.index])
  /\ LET op     == run.diff.ops[run.index]
         target == PathText(OpTarget(run.report.rootName, run.diff.baseRoot, op))
         asked  == [run EXCEPT !.log = Append(@, Event(run.index, "ask"))]
         probed == [asked EXCEPT !.log = Append(@, ProbeEvent(run.index, lockState))]
     IN  CASE decision = "skip" ->
                /\ lockState = "ok" /\ fault = "none"
                /\ run' = Recorded(asked, "skipped", target, "User skipped locked file")
           [] decision = "abort" ->
                /\ lockState = "ok" /\ fault = "none"
                /\ run' = Recorded([asked EXCEPT !.aborted = TRUE], "aborted", target,
                                   "User aborted due to lock")
           [] decision = "retry" -> run' = PerformOp(probed, fault)
  /\ UNCHANGED <<tree, last, steps, heap, saved, history, norm, store>>

\* One round of the while (true) loop: decision = await
\* options.onLockedFile(sourcePath); on retry the lock is probed again.
OnLockedFile(decision, lockState, fault) ==
  /\ run.pc = "locked"
  /\ fault = "second" => OpHasSecondCall(run.diff.ops[run.index])
  /\ LET op     == run.diff.ops[run.index]
         target == PathText(OpTarget(run.report.rootName, run.diff.baseRoot, op))
         asked  == [run EXCEPT !.log = Append(@, Event(run.index, "ask"))]
         probed == [asked EXCEPT !.log = Append(@, ProbeEvent(run.index, lockState))]
     IN  CASE decision = "skip" ->
                /\ lockState = "ok" /\ fault = "none"
                /\ run' = Recorded(asked, "skipped", target, "User skipped locked file")
           [] decision = "abort" ->
                /\ lockState = "ok" /\ fault = "none"
                /\ run' = Recorded([asked EXCEPT !.aborted = TRUE], "aborted", target,
                                   "User aborted due to lock")
           [] decision = "retry" ->
                IF lockState = "locked"
                THEN /\ fault = "none"
                     /\ Events(run, run.index, "ask") < MaxAsks
                     /\ run' = probed
                ELSE run' = PerformOp(probed, fault)
  /\ UNCHANGED <<tree, last, steps, heap, saved, history, norm, store>>

\* the snapshot is regenerated only when the run is ok
FinishSnapshotsWhenOk ==
  /\ run.pc = "loop"
  /\ run.index > Len(run.diff.ops)
  /\ LET ok   == \A k \in 1..Len(run.results) :
                   run.results[k].status \notin {"failed", "aborted"}
         snap == ok
         keep == snap /\ run.options.persistSnapshot
     IN  run' = [run EXCEPT
                   !.pc = "done",
                   !.log = @ \o (IF snap THEN <<Event(0, "snapshot")>> ELSE <<>>)
                             \o (IF keep THEN <<Event(0, "persist")>> ELSE <<>>),
                   !.response = [ok |-> ok, results |-> run.results,
                                 aborted |-> run.aborted, snapshot |-> snap,
                                 persisted |-> keep, returned |-> TRUE]]
  /\ UNCHANGED <<tree, last, steps, heap, saved, history, norm, store>>

\* ok is false as soon as a result is not applied
FinishCountsSkipped ==
  /\ run.pc = "loop"
  /\ run.index > Len(run.diff.ops)
  /\ LET ok   == \A k \in 1..Len(run.results) : run.results[k].status = "applied"
         snap == ok \/ ~run.aborted
         keep == snap /\ run.options.persistSnapshot
     IN  run' = [run EXCEPT
                   !.pc = "done",
                   !.log = @ \o (IF snap THEN <<Event(0, "snapshot")>> ELSE <<>>)
                             \o (IF keep THEN <<Event(0, "persist")>> ELSE <<>>),
                   !.response = [ok |-> ok, results |-> run.results,
                                 aborted |-> run.aborted, snapshot |-> snap,
                                 persisted |-> keep, returned |-> TRUE]]
  /\ UNCHANGED <<tree, last, steps, heap, saved, history, norm, store>>

\* After the loop: ok, the snapshot and its persistence, the response.
Finish ==
  /\ run.pc = "loop"
  /\ run.index > Len(run.diff.ops)
  /\ LET ok   == \A k \in 1..Len(run.results) :
                   run.results[k].status \notin {"failed", "aborted"}
         snap == ok \/ ~run.aborted
         keep == snap /\ run.options.persistSnapshot
     IN  run' = [run EXCEPT
                   !.pc = "done",
                   !.log = @ \o (IF snap THEN <<Event(0, "snapshot")>> ELSE <<>>)
                             \o (IF keep THEN <<Event(0, "persist")>> ELSE <<>>),
                   !.response = [ok |-> ok, results |-> run.results,
                                 aborted |-> run.aborted, snapshot |-> snap,
                                 persisted |-> keep, returned |-> TRUE]]
  /\ UNCHANGED <<tree, last, steps, heap, saved, history, norm, store>>

InitApply ==
  /\ tree = Built
  /\ last = [op |-> "build", err |-> "none", ret |-> NULL, ops |-> <<>>]
  /\ steps = 0
  /\ run \in {NewRun(d, o, fs) : d \in DiffInputs, o \in OptionInputs, fs \in DiskInputs}
  /\ Idle({"run"})

NextApply ==
  \/ DryRun
  \/ \E proceed \in BOOLEAN : ConfirmApply(proceed)
  \/ LoopAborted
  \/ LoopPreconditionFailed
  \/ \E lockState \in LockStates, fault \in Faults : LoopOp(lockState, fault)
  \/ \E decision \in Decisions, lockState \in LockStates, fault \in Faults :
       OnLockedFile(decision, lockState, fault)
  \/ Finish

SpecApply == InitApply /\ [][NextApply]_vars

\* applyDiff where every await resumes: the file-system calls, the lock
\* probe and the callbacks return, and a file found locked is not found
\* locked for ever (the handler is asked at most MaxAsks times in a row
\* before it answers skip or abort or the probe reports the file free),
\* on the disk the snapshot was taken of and on that disk without the file
\* p/d/s/f.t, with no snapshot to persist.
InitApplyLive ==
  /\ tree = Built
  /\ last = [op |-> "build", err |-> "none", ret |-> NULL, ops |-> <<>>]
  /\ steps = 0
  /\ run \in {NewRun(d, o, fs) :
                d \in DiffInputs,
                o \in {x \in OptionInputs : ~x.persistSnapshot},
                fs \in {SnapshotDisk(Built)}
                         \cup {fsRm(SnapshotDisk(Built), e.path) :
                                 e \in {x \in SnapshotDisk(Built) : x.kind = "file"}}}
  /\ Idle({"run"})

SpecApplyLive == InitApplyLive /\ [][NextApply]_vars /\ WF_vars(NextApply)

\* ------------------------------------------------ the program: dryRunDiff

\* A diff no generateDiff call returns but a caller of dryRunDiff may pass:
\* a rename of p/s to its own path, a rename of p/d onto p/s, and the
\* delete of the file.
DiffRenameInPlace ==
  [baseRoot |-> Snapshot.rootPath,
   ops |-> <<[type |-> "rename", id |-> <<"n", "4">>, kind |-> "folder",
              fromPath |-> <<"p", "/", "s">>, toPath |-> <<"p", "/", "s">>,
              fromName |-> <<"s">>, toName |-> <<"s">>],
             [type |-> "rename", id |-> <<"n", "1">>, kind |-> "folder",
              fromPath |-> <<"p", "/", "d">>, toPath |-> <<"p", "/", "s">>,
              fromName |-> <<"d">>, toName |-> <<"s">>],
             [type |-> "delete", id |-> <<"n", "3">>, kind |-> "file",
              atPath |-> <<"p", "/", "d", "/", "s", "/", "f", ".", "t">>,
              recursive |-> "undefined"]>>]

DryRunDiffs == DiffInputs \cup {DiffRenameInPlace}

\* entries that appeared on disk after the snapshot was taken
ExtraEntries ==
  {[path |-> <<<<"s">>, <<"f", ".", "t">>>>, kind |-> "file"],
   [path |-> <<<<"s">>, <<"s">>>>, kind |-> "folder"]}

\* every entry but baseRoot stands in a folder
WellFormedDisk(fs) ==
  \A e \in fs : Len(e.path) > 0 => IsFolder(fs, DirName(e.path))

\* The disks a dry run looks at: those of applyDiff, and the same with
\* entries added.
DryRunDisks ==
  {fs \in {d \cup extra : d \in DiskInputs, extra \in SUBSET ExtraEntries} :
     WellFormedDisk(fs)}

\* export const dryRunDiff = (diff: Diff) => buildDryRunReport(diff)
DryRunDiff ==
  /\ run.pc = "dryRunDiff"
  /\ run' = [run EXCEPT !.report = buildDryRunReport(run.diff, run.disk),
                        !.pc = "reported"]
  /\ UNCHANGED <<tree, last, steps, heap, saved, history, norm, store>>

InitDryRun ==
  /\ tree = Built
  /\ last = [op |-> "build", err |-> "none", ret |-> NULL, ops |-> <<>>]
  /\ steps = 0
  /\ run \in {[NewRun(d, [confirmApply |-> FALSE, onLockedFile |-> FALSE,
                          persistSnapshot |-> FALSE], fs)
                  EXCEPT !.pc = "dryRunDiff"] : d \in DryRunDiffs, fs \in DryRunDisks}
  /\ Idle({"run"})

NextDryRun == DryRunDiff

SpecDryRun == InitDryRun /\ [][NextDryRun]_vars

\* ------------------------------------------------- the program: cloneTree

\* Trees as the objects they are.  heap.objs holds the SandboxNode objects
\* and heap.arrs their children arrays, each at its address (its position);
\* the children field of an object is the address of its array.  A tree is
\* a handle: at takes each key of its nodes Map to the address of the
\* node object, t holds the Map's order and the other fields of the
\* SandboxTree (the scalars, and the original Maps, which no call writes
\* after the build).
PositionIn(seq, x) == CHOOSE i \in 1..Len(seq) : seq[i] = x

Members(seq) == {seq[i] : i \in 1..Len(seq)}

\* the tree a handle shows: every node object read through the Map
ReadTree(hp, h) ==
  [h.t EXCEPT !.nodes =
     [id \in DOMAIN h.at |->
        [hp.objs[h.at[id]] EXCEPT !.children = hp.arrs[hp.objs[h.at[id]].children]]]]

\* The heap after a create / rename / move / delete call took the tree of
\* handle h from told to tnew.  The node objects are written in place
\* (node.name = ..., node.parentId = ...); a new node is a new object with
\* a new array (children: []); an array that lost an id was replaced by
\* the result of filter, one that only gained ids was pushed to in place;
\* a node deleted from the Map leaves its object behind.
WriteTree(hp, h, told, tnew) ==
  LET fresh(id)    == id \notin DOMAIN h.at
      replaced(id) ==
        \/ fresh(id)
        \/ \E c \in Members(told.nodes[id].children) :
             c \notin Members(tnew.nodes[id].children)
      newObjs      == SelectSeq(tnew.order, fresh)
      newArrs      == SelectSeq(tnew.order, replaced)
      objAt(id)    == IF fresh(id) THEN Len(hp.objs) + PositionIn(newObjs, id)
                      ELSE h.at[id]
      arrAt(id)    == IF replaced(id) THEN Len(hp.arrs) + PositionIn(newArrs, id)
                      ELSE hp.objs[h.at[id]].children
      ids          == DOMAIN tnew.nodes
  IN  [objs |-> [a \in 1..(Len(hp.objs) + Len(newObjs)) |->
                   IF \E id \in ids : objAt(id) = a
                   THEN LET id == CHOOSE i \in ids : objAt(i) = a
                        IN  [tnew.nodes[id] EXCEPT !.children = arrAt(id)]
                   ELSE hp.objs[a]],
       arrs |-> [a \in 1..(Len(hp.arrs) + Len(newArrs)) |->
                   IF \E id \in ids : arrAt(id) = a
                   THEN tnew.nodes[CHOOSE i \in ids : arrAt(i) = a].children
                   ELSE hp.arrs[a]],
       handle |-> [at |-> [id \in ids |-> objAt(id)],
                   t  |-> [tnew EXCEPT !.nodes = <<>>]]]

\* a tree built from the snapshot, as objects
EmptyHandle(t) == [at |-> <<>>, t |-> [t EXCEPT !.nodes = <<>>, !.order = <<>>]]

LoadTree(t) ==
  WriteTree([objs |-> <<>>, arrs |-> <<>>], EmptyHandle(t),
            [t EXCEPT !.nodes = <<>>, !.order = <<>>], t)

\* cloneTree that spreads each node but keeps its children array
cloneTreeSharesChildren(hp, h) ==
  LET ids == h.t.order
  IN  [objs |-> hp.objs \o [k \in 1..Len(ids) |-> hp.objs[h.at[ids[k]]]],
       arrs |-> hp.arrs,
       handle |-> [at |-> [id \in DOMAIN h.at |-> Len(hp.objs) + PositionIn(ids, id)],
                   t  |-> h.t]]

\* cloneTree(tree): a new Map with, for each node in Map order, a new
\* object {...node, children: [...node.children]}; the scalars and copies
\* of the original Maps.
cloneTree(hp, h) ==
  LET ids == h.t.order
  IN  [objs |-> hp.objs \o [k \in 1..Len(ids) |->
                              [hp.objs[h.at[ids[k]]] EXCEPT !.children = Len(hp.arrs) + k]],
       arrs |-> hp.arrs \o [k \in 1..Len(ids) |->
                              hp.arrs[hp.objs[h.at[ids[k]]].children]],
       handle |-> [at |-> [id \in DOMAIN h.at |-> Len(hp.objs) + PositionIn(ids, id)],
                   t  |-> h.t]]

\* the tree that the variable named which holds
TreeOf(hp, which) == ReadTree(hp, hp.trees[which])

\* const copy = cloneTree(tree)
CloneTree ==
  /\ heap.pc = "trees"
  /\ "copy" \notin DOMAIN heap.trees
  /\ \E c \in {cloneTree(heap, heap.trees["tree"])} :
       heap' = [heap EXCEPT !.objs = c.objs, !.arrs = c.arrs,
                            !.trees = [w \in {"tree", "copy"} |->
                                         IF w = "copy" THEN c.handle ELSE heap.trees[w]],
                            !.called = "cloneTree",
                            !.edited = "none"]
  /\ UNCHANGED <<tree, last, steps, run, saved, history, norm, store>>

\* a create / rename / move / delete call on the tree that which holds,
\* with the outcome r
CallOn(which, op, r) ==
  /\ heap.pc = "trees"
  /\ steps < MaxSteps
  /\ \E x \in {r} :
       /\ x.err # "diverges"
       /\ \E w \in {WriteTree(heap, heap.trees[which], TreeOf(heap, which), x.t)} :
            heap' = [heap EXCEPT !.objs = w.objs, !.arrs = w.arrs,
                                 !.trees[which] = w.handle,
                                 !.called = op,
                                 !.edited = which]
  /\ steps' = steps + 1
  /\ UNCHANGED <<tree, last, run, saved, history, norm, store>>

CreateNodeOn(which, parentId, name, kind) ==
  /\ heap.pc = "trees"
  /\ which \in DOMAIN heap.trees
  /\ TreeOf(heap, which).nextLocalId <= MaxLocalId
  /\ CallOn(which, "create", createNode(TreeOf(heap, which), parentId, name, kind, NULL))

RenameNodeOn(which, id, desiredName) ==
  /\ heap.pc = "trees"
  /\ which \in DOMAIN heap.trees
  /\ CallOn(which, "rename", renameNode(TreeOf(heap, which), id, desiredName))

MoveNodeOn(which, id, targetParentId) ==
  /\ heap.pc = "trees"
  /\ which \in DOMAIN heap.trees
  /\ CallOn(which, "move", moveNode(TreeOf(heap, which), id, targetParentId))

DeleteNodeOn(which, id) ==
  /\ heap.pc = "trees"
  /\ which \in DOMAIN heap.trees
  /\ CallOn(which, "delete", deleteNode(TreeOf(heap, which), id))

\* the ids callers pass for the tree that which holds
IdInputsOn(which) ==
  IF heap.pc = "trees" /\ which \in DOMAIN heap.trees
  THEN DOMAIN heap.trees[which].at \cup {UnknownId}
  ELSE {}

InitClone ==
  /\ tree = Built
  /\ last = [op |-> "build", err |-> "none", ret |-> NULL, ops |-> <<>>]
  /\ steps = 0
  /\ \E l \in {LoadTree(Built)} :
       heap = [pc |-> "trees", objs |-> l.objs, arrs |-> l.arrs,
               trees |-> [w \in {"tree"} |-> l.handle],
               called |-> "buildSandboxTree", edited |-> "tree"]
  /\ Idle({"heap"})

NextClone ==
  \/ CloneTree
  \/ \E w \in {"tree", "copy"} : \E id \in IdInputsOn(w) : DeleteNodeOn(w, id)
  \/ \E w \in {"tree", "copy"} : \E id \in IdInputsOn(w), target \in IdInputsOn(w) :
       MoveNodeOn(w, id, target)
  \/ \E w \in {"tree", "copy"} : \E id \in IdInputsOn(w), n \in NameInputs :
       RenameNodeOn(w, id, n)
  \/ \E w \in {"tree", "copy"} :
       \E p \in IdInputsOn(w), n \in NameInputs, k \in Kinds : CreateNodeOn(w, p, n, k)

SpecClone == InitClone /\ [][NextClone]_vars

\* ------------------------------------- the program: delete and its inverse

\* handleDelete([id]): the subtree is serialised and its parent noted, then
\* the redo closure deletes the node.  saved.before is the tree as it was,
\* kept for comparison only.
SerialiseAndDelete(id) ==
  /\ saved.pc = "none"
  /\ Has(tree, id)
  /\ \E s \in {serialiseSubtree(tree, id)}, d \in {deleteNode(tree, id)} :
       /\ s.err = "none"
       /\ d.err = "none"
       /\ saved' = [pc |-> "deleted", id |-> id, parentId |-> tree.nodes[id].parentId,
                    snapshot |-> s.s, before |-> tree]
       /\ tree' = d.t
       /\ last' = [op |-> "delete", err |-> "none", ret |-> NULL, ops |-> <<>>]
  /\ UNCHANGED <<steps, run, heap, history, norm, store>>

\* the undo closure of handleDelete: restoreSubtree(draft, parentId, snapshot)
RestoreDeleted ==
  /\ saved.pc = "deleted"
  /\ tree' = restoreSubtree(tree, saved.parentId, saved.snapshot)
  /\ saved' = [saved EXCEPT !.pc = "restored"]
  /\ last' = [op |-> "restore", err |-> "none", ret |-> saved.id, ops |-> <<>>]
  /\ UNCHANGED <<steps, run, heap, history, norm, store>>

\* a create / rename / move / delete call while no delete waits for its undo
EditBetween ==
  /\ saved.pc = "none"
  /\ \/ \E id \in IdInputs : DeleteNode(id)
     \/ \E id \in IdInputs, target \in IdInputs : MoveNode(id, target)
     \/ \E id \in IdInputs, n \in NameInputs : RenameNode(id, n)
     \/ \E p \in IdInputs, n \in NameInputs, k \in Kinds : CreateNode(p, n, k, NULL)

InitRestore ==
  /\ tree = Built
  /\ last = [op |-> "build", err |-> "none", ret |-> NULL, ops |-> <<>>]
  /\ steps = 0
  /\ saved = [pc |-> "none", id |-> NULL, parentId |-> NULL, snapshot |-> NULL,
              before |-> Built]
  /\ Idle({"saved"})

NextRestore ==
  \/ EditBetween
  \/ \E id \in DOMAIN tree.nodes : SerialiseAndDelete(id)
  \/ RestoreDeleted

SpecRestore == InitRestore /\ [][NextRestore]_vars

\* --------------------------------------------- the program: createUndoRedo

\* The manager createUndoRedo(capacity) returns: its two stacks (the top is
\* the last element), and log, the closures it has invoked: which command's,
\* which closure (fn), in which of its methods (via).
Commands == 1..MaxCommands

Invocation(via, c, fn) == [via |-> via, c |-> c, fn |-> fn]

Top(stack) == stack[Len(stack)]

Pop(stack) == SubSeq(stack, 1, Len(stack) - 1)

\* execute that never discards
ExecuteUnbounded(command) ==
  /\ history.pc = "manager"
  /\ history.calls < MaxCalls
  /\ history' = [history EXCEPT
                   !.log = Append(@, Invocation("execute", command, "redo")),
                   !.undoStack = Append(@, command),
                   !.redoStack = <<>>,
                   !.calls = @ + 1]
  /\ UNCHANGED <<tree, last, steps, run, heap, saved, norm, store>>

\* execute(command): command.redo(); undoStack.push(command); if
\* (undoStack.length > capacity) undoStack.shift(); redoStack.length = 0
Execute(command) ==
  /\ history.pc = "manager"
  /\ history.calls < MaxCalls
  /\ history' = [history EXCEPT
                   !.log = Append(@, Invocation("execute", command, "redo")),
                   !.undoStack = IF Len(@) + 1 > history.capacity
                                 THEN Tail(Append(@, command))
                                 ELSE Append(@, command),
                   !.redoStack = <<>>,
                   !.calls = @ + 1]
  /\ UNCHANGED <<tree, last, steps, run, heap, saved, norm, store>>

\* undo that takes the oldest command of the undo stack
UndoOldest ==
  /\ history.pc = "manager"
  /\ history.calls < MaxCalls
  /\ history' = IF history.undoStack = <<>>
                THEN [history EXCEPT !.calls = @ + 1]
                ELSE [history EXCEPT
                        !.log = Append(@, Invocation("undo", Head(history.undoStack),
                                                     "undo")),
                        !.undoStack = Tail(@),
                        !.redoStack = Append(@, Head(history.undoStack)),
                        !.calls = @ + 1]
  /\ UNCHANGED <<tree, last, steps, run, heap, saved, norm, store>>

\* undo(): const command = undoStack.pop(); if (!command) return;
\* command.undo(); redoStack.push(command)
Undo ==
  /\ history.pc = "manager"
  /\ history.calls < MaxCalls
  /\ history' = IF history.undoStack = <<>>
                THEN [history EXCEPT !.calls = @ + 1]
                ELSE [history EXCEPT
                        !.log = Append(@, Invocation("undo", Top(history.undoStack),
                                                     "undo")),
                        !.undoStack = Pop(@),
                        !.redoStack = Append(@, Top(history.undoStack)),
                        !.calls = @ + 1]
  /\ UNCHANGED <<tree, last, steps, run, heap, saved, norm, store>>

\* redo(): const command = redoStack.pop(); if (!command) return;
\* command.redo(); undoStack.push(command)
Redo ==
  /\ history.pc = "manager"
  /\ history.calls < MaxCalls
  /\ history' = IF history.redoStack = <<>>
                THEN [history EXCEPT !.calls = @ + 1]
                ELSE [history EXCEPT
                        !.log = Append(@, Invocation("redo", Top(history.redoStack),
                                                     "redo")),
                        !.redoStack = Pop(@),
                        !.undoStack = Append(@, Top(history.redoStack)),
                        !.calls = @ + 1]
  /\ UNCHANGED <<tree, last, steps, run, heap, saved, norm, store>>

\* const undoStack = []; const redoStack = []
InitUndoRedo ==
  /\ tree = Built
  /\ last = [op |-> "build", err |-> "none", ret |-> NULL, ops |-> <<>>]
  /\ steps = 0
  /\ history \in {[pc |-> "manager", capacity |-> capacity, undoStack |-> <<>>,
                    redoStack |-> <<>>, log |-> <<>>, calls |-> 0] :
                     capacity \in 0..MaxCapacity}
  /\ Idle({"history"})

NextUndoRedo ==
  \/ \E command \in Commands : Execute(command)
  \/ Undo
  \/ Redo

SpecUndoRedo == InitUndoRedo /\ [][NextUndoRedo]_vars

\* ------------------------------------------- the program: stage and apply

\* One edit of the staged tree, before the diff is applied.
Stage ==
  /\ run = NoRun
  /\ \/ \E id \in IdInputs : DeleteNode(id)
     \/ \E id \in IdInputs, target \in IdInputs : MoveNode(id, target)
     \/ \E id \in IdInputs, n \in NameInputs : RenameNode(id, n)
     \/ \E p \in IdInputs, n \in NameInputs, k \in Kinds : CreateNode(p, n, k, NULL)

\* applyDiff(generateDiff(tree), {confirmApply}) is called on the disk the
\* snapshot was taken of.
ApplyStaged ==
  /\ run = NoRun
  /\ tree.diffSequence < MaxDiffSeq
  /\ ~generateDiffDiverges(tree)
  /\ LET d == generateDiff(tree)
     IN  /\ tree' = d.t
         /\ last' = [op |-> "diff", err |-> "none", ret |-> NULL, ops |-> d.ops]
         /\ run' = NewRun([ops |-> d.ops, baseRoot |-> d.baseRoot],
                          [confirmApply |-> TRUE, onLockedFile |-> FALSE,
                           persistSnapshot |-> FALSE],
                          SnapshotDisk(tree))
  /\ UNCHANGED <<steps, heap, saved, history, norm, store>>

InitStage == Init

\* the confirmation is granted, no file is locked, and the file system
\* fails no call the disk allows
NextStage ==
  \/ Stage
  \/ ApplyStaged
  \/ DryRun
  \/ ConfirmApply(TRUE)
  \/ LoopPreconditionFailed
  \/ LoopOp("ok", "none")
  \/ Finish

SpecStage == InitStage /\ [][NextStage]_vars

\* ---------------------------------------------- the program: normalisePath

\* the characters of the paths normalised: a letter, a drive letter, the
\* colon, the dot and the two separators
PathChars == {"a", "C", ":", ".", "/", "\\"}

\* the strings over PathChars of length n
RECURSIVE PathsOfLen(_)
PathsOfLen(n) ==
  IF n = 0 THEN {<<>>}
  ELSE {Append(p, c) : p \in PathsOfLen(n - 1), c \in PathChars}

\* the paths callers pass
PathInputs == UNION {PathsOfLen(n) : n \in 0..MaxPathLen}

\* normalisePath(raw) and then normalisePath of what it returned; results
\* holds what the calls returned
NormalisePath ==
  /\ norm.pc = "path"
  /\ Len(norm.results) < 2
  /\ \A i \in 1..Len(norm.results) : norm.results[i].err = "none"
  /\ norm' = [norm EXCEPT
                !.results =
                   Append(@, normalisePath(IF Len(norm.results) = 0 THEN norm.raw
                                           ELSE norm.results[1].path,
                                           "AbsoluteOrRelative"))]
  /\ UNCHANGED <<tree, last, steps, run, heap, saved, history, store>>

InitNormalise ==
  /\ tree = Built
  /\ last = [op |-> "build", err |-> "none", ret |-> NULL, ops |-> <<>>]
  /\ steps = 0
  /\ norm \in {[pc |-> "path", raw |-> raw, results |-> <<>>] : raw \in PathInputs}
  /\ Idle({"norm"})

NextNormalise == NormalisePath

SpecNormalise == InitNormalise /\ [][NextNormalise]_vars

\* ------------------------------------------------ the program: createNode

\* the ids handed to createNode as payload.id: none, or a local id, unused or
\* the id of a node (handleCreate's redo passes the id of the first create,
\* and the history outlives loadSnapshot, which starts the counter at 1
\* again)
SuppliedIds == {NULL} \cup {LocalId(k) : k \in 1..tree.nextLocalId}

InitCreate == Init

NextCreate ==
  \E p \in IdInputs, n \in NameInputs, k \in Kinds, i \in SuppliedIds :
    CreateNode(p, n, k, i)

SpecCreate == InitCreate /\ [][NextCreate]_vars

\* ------------------------------------------ the program: createSandboxStore

\* store holds state.tree and state.diff (NULL, or <<value>>), what the call
\* before did (last), the diffs handed to services.applyDiff (sent), and the
\* numbers of calls and of edits made.
StoreDiff(d) == [ops |-> d.ops, baseRoot |-> d.baseRoot, uid |-> d.uid]

\* const diff = state.diff ?? (state.tree ? generateDiff(state.tree) : null)
DiffToApply(st) ==
  IF st.diff # NULL THEN st.diff
  ELSE IF st.tree # NULL THEN <<StoreDiff(generateDiff(st.tree[1]))>>
  ELSE NULL

\* the trees mutateTree hands to setTree: a clone of state.tree after one
\* call that did not throw
EditedTrees(t) ==
  {r.t : r \in {x \in
      {deleteNode(t, id) : id \in DOMAIN t.nodes}
        \cup {moveNode(t, id, target) : id \in DOMAIN t.nodes, target \in DOMAIN t.nodes}
        \cup {renameNode(t, id, n) : id \in DOMAIN t.nodes, n \in NameInputs}
        \cup (IF t.nextLocalId <= MaxLocalId
              THEN {createNode(t, p, n, k, NULL) :
                      p \in DOMAIN t.nodes, n \in NameInputs, k \in Kinds}
              ELSE {}) : x.err = "none"}}

\* the snapshot in the response of services.applyDiff: none, or one
SnapshotResults == {NULL, <<Snapshot>>}

StoreCall(st) ==
  /\ store.pc = "store"
  /\ store.calls < MaxStoreCalls
  /\ store' = [st EXCEPT !.calls = store.calls + 1]
  /\ UNCHANGED <<tree, last, steps, run, heap, saved, history, norm>>

\* loadSnapshot(snapshot)
LoadSnapshot ==
  /\ store.pc = "store"
  /\ StoreCall([store EXCEPT !.tree = <<buildSandboxTree(Snapshot)>>,
                             !.diff = NULL,
                             !.last = [op |-> "load", err |-> "none"]])

\* setTree(tree), with the tree mutateTree made
SetTree(t) ==
  /\ store.pc = "store"
  /\ store.tree # NULL
  /\ store.edits < MaxSteps
  /\ t \in EditedTrees(store.tree[1])
  /\ StoreCall([store EXCEPT !.tree = <<t>>,
                             !.edits = @ + 1,
                             !.last = [op |-> "setTree", err |-> "none"]])

\* previewCurrentDiff(); a generateDiff that never returns has no next state
PreviewCurrentDiff ==
  /\ store.pc = "store"
  /\ IF store.tree = NULL
     THEN StoreCall([store EXCEPT !.last = [op |-> "preview", err |-> "NoTreeLoaded"]])
     ELSE /\ ~generateDiffDiverges(store.tree[1])
          /\ LET d == generateDiff(store.tree[1])
             IN  StoreCall([store EXCEPT !.tree = <<d.t>>,
                                         !.diff = <<StoreDiff(d)>>,
                                         !.last = [op |-> "preview", err |-> "none"]])

\* applyCurrentDiff(); services.applyDiff answers with or without a snapshot
ApplyCurrentDiff(snapshot) ==
  /\ store.pc = "store"
  /\ store.diff = NULL /\ store.tree # NULL => ~generateDiffDiverges(store.tree[1])
  /\ LET diff == DiffToApply(store)
         st1  == IF store.diff = NULL /\ store.tree # NULL
                 THEN [store EXCEPT !.tree = <<generateDiff(store.tree[1]).t>>]
                 ELSE store
     IN  IF diff = NULL
         THEN StoreCall([store EXCEPT !.last = [op |-> "apply", err |-> "NoDiffComputed"]])
         ELSE StoreCall([st1 EXCEPT
                 !.sent = Append(@, diff[1]),
                 !.tree = IF snapshot # NULL THEN <<buildSandboxTree(snapshot[1])>>
                          ELSE @,
                 !.diff = IF snapshot # NULL THEN NULL ELSE @,
                 !.last = [op |-> "apply", err |-> "none"]])

InitStore ==
  /\ tree = Built
  /\ last = [op |-> "build", err |-> "none", ret |-> NULL, ops |-> <<>>]
  /\ steps = 0
  /\ store = [pc |-> "store", tree |-> NULL, diff |-> NULL, sent |-> <<>>,
              last |-> [op |-> "create", err |-> "none"], calls |-> 0, edits |-> 0]
  /\ Idle({"store"})

NextStore ==
  \/ LoadSnapshot
  \/ \E t \in IF store.pc = "store" /\ store.tree # NULL
              THEN EditedTrees(store.tree[1]) ELSE {} : SetTree(t)
  \/ PreviewCurrentDiff
  \/ \E snapshot \in SnapshotResults : ApplyCurrentDiff(snapshot)

SpecStore == InitStore /\ [][NextStore]_vars

\* ------------------------------------------------------------- properties

\* The ids listed in the children of the nodes of X that are nodes.
ChildrenOf(t, X) ==
  {c \in DOMAIN t.nodes : \E p \in X : c \in Range(t.nodes[p].children)}

\* The nodes reachable from the nodes of X through children lists, X included.
RECURSIVE ReachableFrom(_, _)
ReachableFrom(t, X) ==
  IF ChildrenOf(t, X) \subseteq X THEN X ELSE ReachableFrom(t, X \cup ChildrenOf(t, X))

\* descendantsOf(id): the nodes below id.
DescendantsOf(t, id) == ReachableFrom(t, ChildrenOf(t, {id}))

\* The names of the children of parentId other than excludeId.
SiblingNames(t, parentId, excludeId) ==
  {t.nodes[c].name : c \in ChildrenOf(t, {parentId}) \ {excludeId}}

\* C1: moveNode(id, target) throws 'Cannot move into descendant' and leaves
\* the tree unchanged whenever target is id itself or a descendant of id.
C1_MoveIntoSelfOrDescendantThrows ==
  [][\A id \in DOMAIN tree.nodes :
       \A target \in DescendantsOf(tree, id) \cup {id} :
         MoveNode(id, target) =>
           /\ last'.err = "CannotMoveIntoDescendant"
           /\ tree' = tree]_vars

\* C2: no folder has two children with the same name.
C2_UniqueSiblingNames ==
  \A p \in DOMAIN tree.nodes :
    \A i, j \in 1..Len(tree.nodes[p].children) :
      LET a == tree.nodes[p].children[i]
          b == tree.nodes[p].children[j]
      IN  (i # j /\ Has(tree, a) /\ Has(tree, b)) => tree.nodes[a].name # tree.nodes[b].name

\* C3: the parent relation is acyclic: no node is its own parent or among its
\* own descendants, and the parentId chain from every node ends after
\* finitely many steps.
C3_Acyclic ==
  \A id \in DOMAIN tree.nodes :
    /\ tree.nodes[id].parentId # id
    /\ id \notin DescendantsOf(tree, id)
    /\ isDescendant(tree, id, UnknownId) = "false"

ThrownErrors ==
  {"EmptyName", "InvalidCharacters", "ReservedName", "NodeNotFound", "NotAFolder",
   "NameAlreadyExists", "CannotMoveIntoDescendant"}

ValidNames == {n \in NameInputs : ensureValidName(n) = "none"}

\* stem-k+extension, and name-k
SuffixedName(name, k) ==
  splitStemAndExtension(name).stem \o <<"-">> \o NatToStr(k)
    \o splitStemAndExtension(name).extension

PlainSuffixedName(name, k) == name \o <<"-">> \o NatToStr(k)

\* The first name of the series stem-1+extension, stem-2+extension, ... that
\* is not in taken.
FirstFreeSuffixed(name, taken) ==
  SuffixedName(name,
    CHOOSE k \in 1..(Cardinality(taken) + 1) :
      /\ SuffixedName(name, k) \notin taken
      /\ \A j \in 1..(k - 1) : SuffixedName(name, j) \in taken)

\* The first name of the series name-1, name-2, ... that is not in taken.
FirstFreePlain(name, taken) ==
  PlainSuffixedName(name,
    CHOOSE k \in 1..(Cardinality(taken) + 1) :
      /\ PlainSuffixedName(name, k) \notin taken
      /\ \A j \in 1..(k - 1) : PlainSuffixedName(name, j) \in taken)

\* The calls the program may make next take place in this state.
CanCall == steps < MaxSteps

CanCreate == CanCall /\ tree.nextLocalId <= MaxLocalId

CreateOutcomeOk(r, parentId, name, kind, expected) ==
  /\ r.err = "none"
  /\ DOMAIN r.t.nodes = DOMAIN tree.nodes \cup {r.ret}
  /\ r.ret \notin DOMAIN tree.nodes
  /\ r.t.nodes[r.ret].name = expected
  /\ r.t.nodes[r.ret].kind = kind
  /\ r.t.nodes[r.ret].parentId = parentId
  /\ r.t.nodes[parentId].children = Append(tree.nodes[parentId].children, r.ret)

Named(t, parentId, name, excludeId) ==
  SelectSeq(Siblings(t, parentId),
            LAMBDA c : c # excludeId /\ t.nodes[c].name = name)

\* The first half of C8: moveNode(F, T) of a folder F into a folder T, not its
\* parent and not inside F, that has a child folder G with F's name merges
\* them: every child of F becomes a child of G (its parentId is G and G's
\* children list holds it), F is removed from nodes and from its old
\* parent's children, and G is returned.
C8_FolderMoveMerges ==
  CanCall =>
    \A F \in DOMAIN tree.nodes, T \in DOMAIN tree.nodes :
      LET same == Named(tree, T, tree.nodes[F].name, F)
          r    == moveNode(tree, F, T)
          P    == tree.nodes[F].parentId
      IN  ( /\ tree.nodes[F].kind = "folder"
            /\ tree.nodes[T].kind = "folder"
            /\ P # T
            /\ T \notin {F} \cup DescendantsOf(tree, F)
            /\ Len(same) > 0
            /\ tree.nodes[same[1]].kind = "folder" ) =>
          /\ r.err = "none"
          /\ r.ret = same[1]
          /\ DOMAIN r.t.nodes = DOMAIN tree.nodes \ {F}
          /\ \A c \in Range(tree.nodes[F].children) :
               /\ r.t.nodes[c].parentId = same[1]
               /\ c \in Range(r.t.nodes[same[1]].children)
          /\ P \in DOMAIN r.t.nodes => F \notin Range(r.t.nodes[P].children)

\* The second half of C8: moveNode(f, T) of a file f into a folder T, not its parent,
\* that has a child with f's name never merges: f is re-parented under T
\* with the first unused name stem-k+extension, no node is removed, and f
\* is returned.
C8_FileMoveSuffixes ==
  CanCall =>
    \A f \in DOMAIN tree.nodes, T \in DOMAIN tree.nodes :
      LET r == moveNode(tree, f, T)
          P == tree.nodes[f].parentId
      IN  ( /\ tree.nodes[f].kind = "file"
            /\ tree.nodes[T].kind = "folder"
            /\ P # T
            /\ Len(Named(tree, T, tree.nodes[f].name, f)) > 0 ) =>
          /\ r.err = "none"
          /\ r.ret = f
          /\ DOMAIN r.t.nodes = DOMAIN tree.nodes
          /\ r.t.nodes[f].parentId = T
          /\ r.t.nodes[T].children = Append(tree.nodes[T].children, f)
          /\ P \in DOMAIN r.t.nodes => f \notin Range(r.t.nodes[P].children)
          /\ r.t.nodes[f].name
               = FirstFreeSuffixed(tree.nodes[f].name, SiblingNames(tree, T, f))
          /\ \A c \in DOMAIN tree.nodes \ {f, T, P} : r.t.nodes[c] = tree.nodes[c]

\* C8 as stated: a folder moved onto a same-named folder is merged into it,
\* and a file moved onto a same-named sibling is re-parented and suffixed.
C8_MoveMergesFoldersOnly == C8_FolderMoveMerges /\ C8_FileMoveSuffixes

\* What is left of C8 where C1's missing check has not yet made a node its
\* own parent: on an acyclic tree both halves hold.
C8_HoldsWhileAcyclic == C3_Acyclic => C8_MoveMergesFoldersOnly

\* C9: deleteNode(id) removes id and every transitive descendant from
\* nodes, and removes id from its parent's children list; every other node
\* stays as it was.
C9_DeleteRemovesSubtree ==
  CanCall =>
    \A id \in DOMAIN tree.nodes :
      LET r == deleteNode(tree, id)
          P == tree.nodes[id].parentId
      IN  /\ r.err = "none"
          /\ DOMAIN r.t.nodes
               = DOMAIN tree.nodes \ ({id} \cup DescendantsOf(tree, id))
          /\ \A c \in DOMAIN r.t.nodes :
               r.t.nodes[c] = IF c = P
                              THEN [tree.nodes[c] EXCEPT !.children = Without(@, id)]
                              ELSE tree.nodes[c]

\* C9 witness: a delete has removed the folder n1 with its child n2 and its
\* grandchild n3, and n1 is no longer listed by the root.
C9_SubtreeDeleted ==
  /\ last.op = "delete" /\ last.err = "none"
  /\ ~Has(tree, <<"n", "1">>) /\ ~Has(tree, <<"n", "2">>) /\ ~Has(tree, <<"n", "3">>)
  /\ Has(tree, <<"r">>)
  /\ <<"n", "1">> \notin Range(tree.nodes[<<"r">>].children)

\* The place of an op's type in creates ++ moves ++ renames ++ deletes.
TypeRank(type) ==
  CASE type = "create" -> 1
    [] type = "move"   -> 2
    [] type = "rename" -> 3
    [] type = "delete" -> 4

\* The ops generateDiff collects for the tree, in no order.
CollectedOps(t) ==
  {CreateOp(t, id) : id \in Range(CreatedIds(t))}
    \cup {MoveOp(t, id) : id \in Range(MovedIds(t))}
    \cup {RenameOp(t, id) : id \in Range(RenamedIds(t))}
    \cup {DeleteOp(t, id) : id \in Range(DeleteRootIds(t))}

\* C10: the ops generateDiff returns are the collected ops as
\* creates ++ moves ++ renames ++ deletes; creates are in ascending parentPath
\* depth, then name; moves in ascending toParentPath depth, then id; renames
\* in toPath order; deletes in descending atPath depth, then id.
C10_DiffOpsOrdered ==
  last.op = "diff" =>
    /\ Range(last.ops) = CollectedOps(tree)
    /\ Len(last.ops) = Len(CreatedIds(tree)) + Len(MovedIds(tree))
                         + Len(RenamedIds(tree)) + Len(DeleteRootIds(tree))
    /\ \A i \in 1..Len(last.ops), j \in 1..Len(last.ops) :
         i < j =>
           LET a == last.ops[i]
               b == last.ops[j]
           IN  /\ TypeRank(a.type) <= TypeRank(b.type)
               /\ (a.type = "create" /\ b.type = "create") =>
                    \/ pathDepth(a.parentPath) < pathDepth(b.parentPath)
                    \/ /\ pathDepth(a.parentPath) = pathDepth(b.parentPath)
                       /\ localeCompare(a.name, b.name) <= 0
               /\ (a.type = "move" /\ b.type = "move") =>
                    \/ pathDepth(a.toParentPath) < pathDepth(b.toParentPath)
                    \/ /\ pathDepth(a.toParentPath) = pathDepth(b.toParentPath)
                       /\ localeCompare(a.id, b.id) <= 0
               /\ (a.type = "rename" /\ b.type = "rename") =>
                    localeCompare(a.toPath, b.toPath) <= 0
               /\ (a.type = "delete" /\ b.type = "delete") =>
                    \/ pathDepth(a.atPath) > pathDepth(b.atPath)
                    \/ /\ pathDepth(a.atPath) = pathDepth(b.atPath)
                       /\ localeCompare(a.id, b.id) <= 0

\* C10 witness: after a folder was created and a file of the snapshot was
\* moved next to it, which renamed the file, generateDiff has returned
\* exactly [create, move, rename].
C10_CreateMoveRename ==
  /\ last.op = "diff"
  /\ [i \in 1..Len(last.ops) |-> last.ops[i].type] = <<"create", "move", "rename">>
  /\ last.ops[1].kind = "folder"
  /\ last.ops[2].kind = "file" /\ last.ops[3].id = last.ops[2].id
  /\ last.ops[2].toParentPath = last.ops[1].parentPath

\* The disk the i-th op of the generated diff finds, the ops before it applied
\* to the snapshot's disk.
DiskBeforeOp(i) ==
  DiskAfter(SnapshotDisk(tree), inferRootNameFrom(last.ops, tree.snapshotRootPath),
            tree.snapshotRootPath, last.ops, i - 1)

\* C11: for every Create op of a generated diff, the folder its parentPath
\* names exists when the op is reached in execution order: it is on the
\* snapshot's disk untouched, or an earlier op of the diff has put it there.
C11_CreateParentExists ==
  last.op = "diff" =>
    \A i \in 1..Len(last.ops) :
      last.ops[i].type = "create" =>
        IsFolder(DiskBeforeOp(i),
                 toParentAbsolute(inferRootNameFrom(last.ops, tree.snapshotRootPath),
                                  last.ops[i].parentPath))

\* C12: for every Move op of a generated diff, the folder its toParentPath
\* names exists when the op is reached in execution order: it is on the
\* snapshot's disk, or an earlier op of the diff created, moved or renamed a
\* folder into that path.
C12_MoveDestinationExists ==
  last.op = "diff" =>
    \A i \in 1..Len(last.ops) :
      last.ops[i].type = "move" =>
        IsFolder(DiskBeforeOp(i),
                 toParentAbsolute(inferRootNameFrom(last.ops, tree.snapshotRootPath),
                                  last.ops[i].toParentPath))

\* The original ancestors of a snapshot id, by the parentIds as loaded.
RECURSIVE OriginalAncestors(_, _)
OriginalAncestors(t, id) ==
  IF t.originalNodes[id].parentId = NULL
       \/ t.originalNodes[id].parentId \notin DOMAIN t.originalNodes
  THEN {}
  ELSE {t.originalNodes[id].parentId}
         \cup OriginalAncestors(t, t.originalNodes[id].parentId)

\* C13: a generated diff holds exactly one Delete op for each snapshot id
\* that is absent from the tree and has no absent original ancestor, and no
\* Delete op for an id one of whose original ancestors, at any distance, is
\* absent too (nor for an id that is still in the tree).
C13_DeleteOpsForTopmostOnly ==
  last.op = "diff" =>
    \A id \in DOMAIN tree.originalNodes :
      Cardinality({i \in 1..Len(last.ops) :
                     last.ops[i].type = "delete" /\ last.ops[i].id = id})
        = IF /\ ~Has(tree, id)
             /\ \A a \in OriginalAncestors(tree, id) : Has(tree, a)
          THEN 1 ELSE 0

C15_DiffLeavesTreeUnchanged == [][GenerateDiff => tree' = tree]_vars

\* The number of places at which the op o stands in ops.
Occurrences(ops, o) == Cardinality({i \in 1..Len(ops) : ops[i] = o})

\* The Create / Move / Rename op C16 expects for a node of the tree.
ExpectedCreate(id) ==
  [type |-> "create",
   parentPath |-> IF tree.nodes[id].parentId = NULL THEN <<>>
                  ELSE pathOf(tree, tree.nodes[id].parentId).path,
   name |-> tree.nodes[id].name, kind |-> tree.nodes[id].kind]

ExpectedMove(id) ==
  [type |-> "move", id |-> id, kind |-> tree.nodes[id].kind,
   fromPath |-> tree.originalPaths[id],
   toParentPath |-> IF tree.nodes[id].parentId = NULL THEN <<>>
                    ELSE pathOf(tree, tree.nodes[id].parentId).path]

ExpectedRename(id) ==
  [type |-> "rename", id |-> id, kind |-> tree.nodes[id].kind,
   fromPath |-> tree.originalPaths[id], toPath |-> pathOf(tree, id).path,
   fromName |-> tree.originalNodes[id].name, toName |-> tree.nodes[id].name]

\* C16: the non-delete ops of a generated diff are exactly one Create
\* (current parent path, current name) per node with fromSnapshot = false,
\* one Move (fromPath the path as loaded) per snapshot node whose parentId
\* differs from its original one, one Rename per snapshot node whose name
\* differs from its original one, and nothing else: none for a node equal
\* to its original, both a Move and a Rename for a node moved and renamed.
C16_NonDeleteOpsExact ==
  last.op = "diff" =>
    LET created == {id \in DOMAIN tree.nodes : ~tree.nodes[id].fromSnapshot}
        kept    == {id \in DOMAIN tree.nodes : tree.nodes[id].fromSnapshot}
        moved   == {id \in kept :
                      tree.nodes[id].parentId # tree.originalNodes[id].parentId}
        renamed == {id \in kept : tree.nodes[id].name # tree.originalNodes[id].name}
        nonDelete == SelectSeq(last.ops, LAMBDA o : o.type # "delete")
    IN  /\ Len(nonDelete)
             = Cardinality(created) + Cardinality(moved) + Cardinality(renamed)
        /\ \A id \in created :
             Occurrences(nonDelete, ExpectedCreate(id))
               = Cardinality({c \in created : ExpectedCreate(c) = ExpectedCreate(id)})
        /\ \A id \in moved : Occurrences(nonDelete, ExpectedMove(id)) = 1
        /\ \A id \in renamed : Occurrences(nonDelete, ExpectedRename(id)) = 1

\* C16 witness: a generated diff holds both a Move and a Rename for one
\* snapshot node, moved and renamed.
C16_MovedAndRenamed ==
  /\ last.op = "diff"
  /\ \E i \in 1..Len(last.ops), j \in 1..Len(last.ops) :
       /\ last.ops[i].type = "move" /\ last.ops[j].type = "rename"
       /\ last.ops[i].id = last.ops[j].id

\* an applyDiff call is under way or has returned
Running == run.pc # "idle"

\* the events of the log that are lock probes, handler calls or
\* file-system calls
Touches(r) == SelectSeq(r.log, LAMBDA e : e.ev \in {"probe", "ask", "fs"})

\* C17: if confirmApply returns false, applyDiff returns ok = false,
\* aborted = true and an empty results list, and there has been no lock
\* probe, no call of the locked-file handler, no file-system mutation, no
\* snapshot generation and no persistence.
C17_DeclineTouchesNothing ==
  (Running /\ run.confirmed = "no") =>
    /\ run.pc = "done"
    /\ run.response.returned
    /\ ~run.response.ok
    /\ run.response.aborted
    /\ run.response.results = <<>>
    /\ ~run.response.snapshot /\ ~run.response.persisted
    /\ run.log = <<>>
    /\ run.disk = run.disk0

\* C17 witness: a call whose dry run found an op to apply has returned
\* after confirmApply said no.
C17_Declined ==
  /\ Running /\ run.pc = "done" /\ run.confirmed = "no"
  /\ \E i \in 1..Len(run.report.operations) :
       run.report.operations[i].precondition = "ok"

\* the op at which the locked-file handler returned abort, 0 if none
AbortedAt(r) ==
  IF \E i \in 1..Len(r.results) : r.results[i].message = "User aborted due to lock"
  THEN CHOOSE i \in 1..Len(r.results) :
         r.results[i].message = "User aborted due to lock"
  ELSE 0

\* C18: once the locked-file handler has returned abort for op i, op i and
\* every later op get the status aborted, whatever their dry-run
\* precondition, with no lock probe, handler call or file-system call for a
\* later op; the response has aborted = true; and from then on the results
\* recorded before keep their status and the disk is not touched again (no
\* rollback).
C18_AbortPropagates ==
  /\ [](Running /\ AbortedAt(run) > 0 =>
          /\ run.aborted
          /\ \A j \in AbortedAt(run)..Len(run.results) :
               run.results[j].status = "aborted"
          /\ \A k \in 1..Len(run.log) :
               run.log[k].ev \in {"probe", "ask", "fs"} => run.log[k].i <= AbortedAt(run)
          /\ run.pc = "done" =>
               /\ run.response.aborted
               /\ Len(run.response.results) = Len(run.diff.ops))
  /\ [][(Running /\ AbortedAt(run) > 0) =>
          /\ run'.disk = run.disk
          /\ Touches(run') = Touches(run)
          /\ SubSeq(run'.results, 1, Len(run.results)) = run.results]_vars

\* C18 witness: a run has ended in which the handler aborted at an op that
\* was not the last, and a later op whose dry-run precondition was not ok
\* is reported aborted.
C18_AbortedBeforeBadOp ==
  /\ Running /\ run.pc = "done"
  /\ AbortedAt(run) > 0
  /\ \E j \in (AbortedAt(run) + 1)..Len(run.results) :
       /\ run.report.operations[j].precondition # "ok"
       /\ run.results[j].status = "aborted"

FailedBefore(r, j) == {k \in 1..(j - 1) : r.results[k].status = "failed"}

\* C21: a failed op never aborts the run. The aborted flag is set only by
\* the locked-file handler returning abort; an op that follows a failed
\* result with no abort before it is processed like any other: failed on a
\* bad dry-run precondition, otherwise probed or handed to the file system,
\* and aborted only if the handler said so for that very op. response.aborted
\* is true only if confirmApply declined or the handler returned abort.
C21_FailureDoesNotAbort ==
  Running =>
    /\ run.aborted => AbortedAt(run) > 0
    /\ \A j \in 1..Len(run.results) :
         (/\ FailedBefore(run, j) # {}
          /\ \A k \in 1..(j - 1) : run.results[k].status # "aborted") =>
           /\ run.results[j].status = "aborted" =>
                /\ run.results[j].message = "User aborted due to lock"
                /\ Events(run, j, "ask") > 0
           /\ run.report.operations[j].precondition = "ok" =>
                \E k \in 1..Len(run.log) : run.log[k].i = j
           /\ run.report.operations[j].precondition # "ok" =>
                run.results[j].status = "failed"
    /\ (run.pc = "done" /\ run.response.aborted) =>
         run.confirmed = "no" \/ AbortedAt(run) > 0

\* C21 witness: a run has ended in which a file-system call threw for one
\* op, a later op was applied, and the response is not aborted.
C21_FailedThenApplied ==
  /\ Running /\ run.pc = "done"
  /\ ~run.response.aborted
  /\ \E j \in 1..Len(run.results), k \in 1..Len(run.results) :
       /\ j < k
       /\ run.results[j].status = "failed"
       /\ run.results[j].message = "error.message"
       /\ run.results[k].status = "applied"

\* what the call did for op i, in order
OpLog(r, i) == SelectSeq(r.log, LAMBDA e : e.i = i)

\* op i of the run is a file move / rename / delete whose first lock probe
\* reported locked, in a call that has a locked-file handler
LockedWithHandler(r, i) ==
  /\ r.options.onLockedFile
  /\ shouldCheckLock(r.diff.ops[i])
  /\ OpLog(r, i) # <<>>
  /\ OpLog(r, i)[1] = ProbeEvent(i, "locked")

\* C22: for a file move / rename / delete whose first lock probe reports
\* locked, with a handler: the handler is asked after every probe that
\* reports locked and only then; after the handler's answer the next thing
\* done for the op, if any, is a probe (retry); a file-system call comes
\* only after a probe that did not report locked (ok or missing); a skipped
\* op has no file-system call and its step leaves the disk as it was. For
\* any op, the handler is never called when the first probe is not locked.
C22_LockedFileHandlerLoop ==
  /\ [](Running =>
         \A i \in 1..Len(run.diff.ops) :
           LET l == OpLog(run, i)
           IN  /\ LockedWithHandler(run, i) =>
                    /\ \A k \in 1..Len(l) :
                         /\ (l[k].ev = "probe" /\ l[k].lockState = "locked") =>
                              IF k < Len(l) THEN l[k + 1].ev = "ask"
                              ELSE run.pc = "locked" /\ run.index = i
                         /\ l[k].ev = "ask" =>
                              /\ l[k - 1] = ProbeEvent(i, "locked")
                              /\ k < Len(l) => l[k + 1].ev = "probe"
                         /\ (l[k].ev = "probe" /\ k > 1) => l[k - 1].ev = "ask"
                         /\ l[k].ev = "fs" =>
                              \E p \in 1..(k - 1) :
                                /\ l[p].ev = "probe" /\ l[p].lockState # "locked"
                                /\ \A q \in (p + 1)..(k - 1) : l[q].ev = "fs"
                    /\ (i <= Len(run.results) /\ run.results[i].status = "skipped") =>
                         /\ Events(run, i, "fs") = 0
                         /\ l[Len(l)].ev = "ask"
               /\ (l # <<>> /\ l[1].ev = "probe" /\ l[1].lockState # "locked") =>
                    Events(run, i, "ask") = 0)
  /\ [][(/\ Running
          /\ Len(run'.results) = Len(run.results) + 1
          /\ run'.results[Len(run'.results)].status = "skipped") =>
            run'.disk = run.disk]_vars

\* C22 witness: a file op was probed locked, the handler said retry, the
\* second probe was locked again, the handler said retry again, the third
\* probe reported ok, and the op was applied by a file-system call.
C22_RetriedTwiceThenApplied ==
  /\ Running
  /\ \E i \in 1..Len(run.results) :
       /\ LockedWithHandler(run, i)
       /\ run.results[i].status = "applied"
       /\ Len(OpLog(run, i)) >= 6
       /\ SubSeq(OpLog(run, i), 1, 5)
            = <<ProbeEvent(i, "locked"), Event(i, "ask"), ProbeEvent(i, "locked"),
                Event(i, "ask"), ProbeEvent(i, "ok")>>
       /\ OpLog(run, i)[6] = Event(i, "fs")

\* C23: a file move / rename / delete whose lock probe reports locked, in a
\* call without a locked-file handler, is recorded failed with the message
\* 'File is locked' and the op's target path; the probe is the only thing
\* done for it (called once, no file-system call), and the step that
\* records it leaves the disk as it was.
C23_LockedWithoutHandlerFails ==
  /\ [](Running =>
         \A i \in 1..Len(run.diff.ops) :
           (/\ ~run.options.onLockedFile
            /\ OpLog(run, i) # <<>>
            /\ OpLog(run, i)[1] = ProbeEvent(i, "locked")) =>
             /\ OpLog(run, i) = <<ProbeEvent(i, "locked")>>
             /\ shouldCheckLock(run.diff.ops[i])
             /\ Len(run.results) >= i
             /\ run.results[i].status = "failed"
             /\ run.results[i].message = "File is locked"
             /\ run.results[i].targetPath
                  = PathText(OpTarget(run.report.rootName, run.diff.baseRoot,
                                      run.diff.ops[i])))
  /\ [][(/\ Running
          /\ Len(run'.results) = Len(run.results) + 1
          /\ run'.results[Len(run'.results)].message = "File is locked") =>
            run'.disk = run.disk]_vars

\* C23 witness: a run without a handler has ended in which a file op found
\* locked is recorded failed and another op is applied.
C23_LockedFailed ==
  /\ Running /\ run.pc = "done"
  /\ ~run.options.onLockedFile
  /\ \E i \in 1..Len(run.results) :
       /\ OpLog(run, i) = <<ProbeEvent(i, "locked")>>
       /\ run.results[i].status = "failed"
  /\ \E i \in 1..Len(run.results) : run.results[i].status = "applied"

\* op is a move, rename or delete of a file
IsFileMoveRenameDelete(op) ==
  op.kind = "file" /\ op.type \in {"move", "rename", "delete"}

Calls(r, ev) == Cardinality({k \in 1..Len(r.log) : r.log[k].ev = ev})

\* C25: applyDiff calls generateSnapshot, once and after the loop, and
\* returns a snapshot exactly when confirmApply did not decline and no op
\* has the status aborted, failed and skipped ops or not; persistSnapshot
\* is called, once, exactly when the snapshot was generated and the
\* callback is supplied; neither is called after a declined confirmation or
\* a handler abort, nor before the loop has ended.
C25_SnapshotUnlessAborted ==
  Running =>
    /\ run.pc # "done" => Calls(run, "snapshot") = 0 /\ Calls(run, "persist") = 0
    /\ run.pc = "done" =>
         LET regenerated ==
               /\ run.confirmed # "no"
               /\ \A k \in 1..Len(run.results) : run.results[k].status # "aborted"
         IN  /\ run.response.snapshot <=> regenerated
             /\ Calls(run, "snapshot") = (IF regenerated THEN 1 ELSE 0)
             /\ run.response.persisted <=> (regenerated /\ run.options.persistSnapshot)
             /\ Calls(run, "persist")
                  = (IF regenerated /\ run.options.persistSnapshot THEN 1 ELSE 0)
             /\ (run.confirmed = "no" \/ AbortedAt(run) > 0) => ~run.response.snapshot

\* C25 witness: a run with a failed op and a skipped op and no aborted one
\* has ended with ok = false, a snapshot generated and persisted.
C25_SnapshotAfterFailure ==
  /\ Running /\ run.pc = "done"
  /\ \E k \in 1..Len(run.results) : run.results[k].status = "failed"
  /\ \E k \in 1..Len(run.results) : run.results[k].status = "skipped"
  /\ ~run.response.ok
  /\ run.response.snapshot /\ run.response.persisted
  /\ Calls(run, "snapshot") = 1

\* the positions of the ops of a report whose precondition is not ok, in
\* op order
NotOkOps(report) ==
  SelectSeq([i \in 1..Len(report.operations) |-> i],
            LAMBDA i : report.operations[i].precondition # "ok")

\* C26: dryRunDiff leaves the disk as it is and reports, for each op,
\* missing-source when the source of a move or rename (for a rename: the
\* recorded fromPath, or when that is absent the sibling named fromName in
\* the directory of toPath) or the target of a delete is absent; otherwise
\* target-exists when the destination of a create, move or rename is
\* occupied, unless it is a rename whose target is its own source;
\* otherwise ok. issues has one entry per op that is not ok, in op order.
C26_DryRunReport ==
  /\ [](run.pc = "reported" =>
         LET rootName == inferRootName(run.diff)
             fs       == run.disk0
         IN  /\ run.disk = run.disk0
             /\ Len(run.report.operations) = Len(run.diff.ops)
             /\ \A i \in 1..Len(run.diff.ops) :
                  LET op       == run.diff.ops[i]
                      source   ==
                        CASE op.type = "move" -> toAbsolute(rootName, op.fromPath)
                          [] op.type = "rename" ->
                               IF toAbsolute(rootName, op.fromPath) \in Paths(fs)
                               THEN toAbsolute(rootName, op.fromPath)
                               ELSE Append(DirName(toAbsolute(rootName, op.toPath)),
                                           op.fromName)
                          [] op.type = "delete" -> toAbsolute(rootName, op.atPath)
                          [] OTHER -> <<>>
                      target   ==
                        CASE op.type = "create" ->
                               Append(toParentAbsolute(rootName, op.parentPath), op.name)
                          [] op.type = "move" ->
                               Append(toParentAbsolute(rootName, op.toParentPath),
                                      source[Len(source)])
                          [] op.type = "rename" -> toAbsolute(rootName, op.toPath)
                          [] OTHER -> <<>>
                      missing  == op.type # "create" /\ source \notin Paths(fs)
                      occupied ==
                        /\ op.type # "delete"
                        /\ target \in Paths(fs)
                        /\ ~(op.type = "rename" /\ target = source)
                  IN  run.report.operations[i].precondition
                        = (IF missing THEN "missing-source"
                           ELSE IF occupied THEN "target-exists" ELSE "ok")
             /\ Len(run.report.issues) = Len(NotOkOps(run.report))
             /\ \A k \in 1..Len(run.report.issues) :
                  run.report.issues[k].description
                    = run.report.operations[NotOkOps(run.report)[k]].description)
  /\ [][DryRunDiff => run'.disk = run.disk]_vars

\* C26 witness: a report on a disk that lost the file holds an ok rename
\* whose target exists and is its own source, a target-exists rename and a
\* missing-source delete, and two issues.
C26_AllThreePreconditions ==
  /\ run.pc = "reported"
  /\ run.diff = DiffRenameInPlace
  /\ run.report.operations[1].precondition = "ok"
  /\ pathExists(run.disk, run.report.operations[1].targetPath)
  /\ run.report.operations[2].precondition = "target-exists"
  /\ run.report.operations[3].precondition = "missing-source"
  /\ Len(run.report.issues) = 2

\* the variable a call did not edit
OtherTree(which) == IF which = "copy" THEN "tree" ELSE "copy"

\* C27: copy = cloneTree(tree) leaves tree as it was and makes copy equal
\* to it; from then on a create / rename / move / delete call on copy
\* leaves tree unchanged (node ids, names, parentIds, children lists, Map
\* order, counters), and a call on tree leaves copy unchanged.
C27_CloneIsolatesEdits ==
  [][/\ CloneTree =>
          /\ TreeOf(heap', "tree") = TreeOf(heap, "tree")
          /\ TreeOf(heap', "copy") = TreeOf(heap, "tree")
     /\ (/\ heap.pc = "trees"
         /\ "copy" \in DOMAIN heap.trees
         /\ steps' = steps + 1) =>
          TreeOf(heap', OtherTree(heap'.edited)) = TreeOf(heap, OtherTree(heap'.edited))]_vars

\* C27 witness: after the clone a node was created in tree and the file
\* was deleted from copy: tree holds local-1 and the file, copy neither.
C27_BothEditedAfterClone ==
  /\ heap.pc = "trees"
  /\ "copy" \in DOMAIN heap.trees
  /\ steps = 2
  /\ DOMAIN TreeOf(heap, "tree").nodes = DOMAIN Built.nodes \cup {LocalId(1)}
  /\ DOMAIN TreeOf(heap, "copy").nodes = DOMAIN Built.nodes \ {<<"n", "3">>}

\* two op lists hold the same ops, each as often
SameOps(a, b) ==
  /\ Len(a) = Len(b)
  /\ \A k \in 1..Len(a) : Occurrences(a, a[k]) = Occurrences(b, a[k])

\* a delete of a non-root node with a parent has been undone by
\* restoreSubtree
DeleteRestored ==
  /\ saved.pc = "restored"
  /\ saved.id # saved.before.rootId
  /\ saved.parentId # NULL

\* the tree after the restore has the nodes of the tree before the delete,
\* field by field, the restored node last among its parent's children
RestoredNodesMatch(before, after, id, p) ==
  /\ DOMAIN after.nodes = DOMAIN before.nodes
  /\ \A n \in DOMAIN before.nodes :
       /\ after.nodes[n].id = before.nodes[n].id
       /\ after.nodes[n].name = before.nodes[n].name
       /\ after.nodes[n].kind = before.nodes[n].kind
       /\ after.nodes[n].parentId = before.nodes[n].parentId
       /\ after.nodes[n].fromSnapshot = before.nodes[n].fromSnapshot
       /\ after.nodes[n].originalName = before.nodes[n].originalName
       /\ after.nodes[n].originalParentId = before.nodes[n].originalParentId
       /\ after.nodes[n].children
            = (IF n = p THEN Append(Without(before.nodes[n].children, id), id)
               ELSE before.nodes[n].children)
  /\ after.rootId = before.rootId
  /\ after.nextLocalId = before.nextLocalId
  /\ after.originalNodes = before.originalNodes
  /\ after.originalPaths = before.originalPaths

C29_HistoryBounded ==
  /\ [](history.pc = "manager" =>
         /\ Len(history.undoStack) <= history.capacity
         /\ Len(history.undoStack) + Len(history.redoStack) <= history.capacity)
  /\ [][\A command \in Commands :
          (Execute(command) /\ Len(history.undoStack) = history.capacity) =>
            history'.undoStack = Tail(Append(history.undoStack, command))]_vars

\* C29 witness: a manager of capacity 2 has discarded command 1, the
\* oldest of three executed, and one of the two it kept has been undone.
C29_OldestDiscarded ==
  /\ history.pc = "manager"
  /\ history.capacity = 2
  /\ Len(history.log) = 4
  /\ SubSeq(history.log, 1, 3)
       = <<Invocation("execute", 1, "redo"), Invocation("execute", 2, "redo"),
           Invocation("execute", 2, "redo")>>
  /\ history.undoStack = <<2>>
  /\ history.redoStack = <<2>>

\* The commands executed and not undone, oldest first, as the closures
\* invoked tell it: an execute or redo adds its command, an undo takes the
\* last away.
RECURSIVE Timeline(_)
Timeline(log) ==
  IF Len(log) = 0 THEN <<>>
  ELSE LET before == Timeline(Pop(log))
       IN  IF Top(log).fn = "redo" THEN Append(before, Top(log).c)
           ELSE Pop(before)

\* the commands undone and not redone since the last execute, oldest first
RECURSIVE Undone(_)
Undone(log) ==
  IF Len(log) = 0 THEN <<>>
  ELSE LET before == Undone(Pop(log))
       IN  CASE Top(log).via = "execute" -> <<>>
             [] Top(log).via = "undo" -> Append(before, Top(log).c)
             [] Top(log).via = "redo" -> Pop(before)

\* the last n elements of a sequence
LastN(seq, n) == SubSeq(seq, Len(seq) - n + 1, Len(seq))

\* C30 as stated, without the bound: execute(c) leaves c on top of the undo
\* stack, and undo invokes the undo closure of the most recently executed
\* command not yet undone whenever there is one.
C30_LinearHistoryOfAllCommands ==
  [][/\ \A command \in Commands :
          Execute(command) =>
            /\ history'.log = Append(history.log, Invocation("execute", command, "redo"))
            /\ history'.redoStack = <<>>
            /\ Len(history'.undoStack) >= 1
            /\ Top(history'.undoStack) = command
     /\ Undo =>
          IF Timeline(history.log) = <<>>
          THEN /\ history'.log = history.log
               /\ history'.undoStack = history.undoStack
               /\ history'.redoStack = history.redoStack
          ELSE /\ history'.log
                    = Append(history.log,
                             Invocation("undo", Top(Timeline(history.log)), "undo"))
               /\ history'.redoStack
                    = Append(history.redoStack, Top(Timeline(history.log)))
     /\ Redo =>
          IF Undone(history.log) = <<>>
          THEN /\ history'.log = history.log
               /\ history'.undoStack = history.undoStack
               /\ history'.redoStack = history.redoStack
          ELSE /\ history'.log
                    = Append(history.log,
                             Invocation("redo", Top(Undone(history.log)), "redo"))
               /\ history'.undoStack
                    = Append(history.undoStack, Top(Undone(history.log)))]_vars

\* C30: the manager is a linear LIFO history of the commands it keeps.  execute(c) invokes c.redo
\* once and nothing else, empties the redo stack and puts c on top of the
\* undo stack (of which only the newest capacity commands are kept, C29);
\* undo invokes, once, the undo closure of the top of the undo stack and
\* moves that command to the redo stack, redo the redo closure of the top
\* of the redo stack and moves it back; on an empty stack undo and redo
\* invoke nothing and change nothing.  The undo stack holds the most
\* recently executed commands not yet undone, the redo stack the commands
\* undone since the last execute, the most recently undone on top.
C30_LinearHistory ==
  /\ [](history.pc = "manager" =>
         /\ Len(history.undoStack) <= Len(Timeline(history.log))
         /\ history.undoStack = LastN(Timeline(history.log), Len(history.undoStack))
         /\ history.redoStack = Undone(history.log))
  /\ [][/\ \A command \in Commands :
            Execute(command) =>
              /\ history'.log = Append(history.log, Invocation("execute", command, "redo"))
              /\ history'.redoStack = <<>>
              /\ (history.capacity >= 1 =>
                    /\ Top(history'.undoStack) = command
                    /\ Pop(history'.undoStack)
                         = LastN(history.undoStack, Len(history'.undoStack) - 1))
        /\ Undo =>
              IF history.undoStack = <<>>
              THEN /\ history'.log = history.log
                   /\ history'.undoStack = <<>>
                   /\ history'.redoStack = history.redoStack
              ELSE /\ history'.log
                        = Append(history.log,
                                 Invocation("undo", Top(Timeline(history.log)), "undo"))
                   /\ history'.undoStack = Pop(history.undoStack)
                   /\ history'.redoStack
                        = Append(history.redoStack, Top(Timeline(history.log)))
        /\ Redo =>
              IF history.redoStack = <<>>
              THEN /\ history'.log = history.log
                   /\ history'.redoStack = <<>>
                   /\ history'.undoStack = history.undoStack
              ELSE /\ history'.log
                        = Append(history.log,
                                 Invocation("redo", Top(Undone(history.log)), "redo"))
                   /\ history'.redoStack = Pop(history.redoStack)
                   /\ history'.undoStack
                        = Append(history.undoStack, Top(Undone(history.log)))]_vars

\* C30 witness: commands 1 and 2 were executed, both undone (2 first), 1
\* was redone, and then an execute of 2 emptied the redo stack.
C30_UndoneRedoneExecuted ==
  /\ history.pc = "manager"
  /\ history.log
       = <<Invocation("execute", 1, "redo"), Invocation("execute", 2, "redo"),
           Invocation("undo", 2, "undo"), Invocation("undo", 1, "undo"),
           Invocation("redo", 1, "redo"), Invocation("execute", 2, "redo")>>
  /\ history.undoStack = <<1, 2>>
  /\ history.redoStack = <<>>

\* C31: renameNode on the root node (parentId = null) is a no-op: whenever
\* renameNode(id, desiredName) is called on a node without a parent, that
\* node has the same name after the call as before it.
C31_RenameRootIsNoOp ==
  [][\A id \in DOMAIN tree.nodes, desiredName \in NameInputs :
       (RenameNode(id, desiredName) /\ tree.nodes[id].parentId = NULL) =>
         tree'.nodes[id].name = tree.nodes[id].name]_vars

\* the position of an id in a sequence that holds it
PositionOf(seq, id) == CHOOSE i \in 1..Len(seq) : seq[i] = id

\* the depth of a node reachable from the root: the number of parentId links
\* from it to the root
RECURSIVE DepthOf(_, _)
DepthOf(t, id) == IF id = t.rootId THEN 0 ELSE 1 + DepthOf(t, t.nodes[id].parentId)

\* ids lists every node reachable from the root exactly once
ListsReachableOnce(t, ids) ==
  LET reachable == ReachableFrom(t, {t.rootId} \cap DOMAIN t.nodes)
  IN  /\ reachable \subseteq Range(ids)
      /\ \A i, j \in 1..Len(ids) : ids[i] = ids[j] => i = j

\* in ids every node is immediately followed by its whole subtree, its
\* children coming in stored order, each with its own subtree behind it
SubtreesContiguous(t, ids) ==
  \A i \in 1..Len(ids) :
    Has(t, ids[i]) =>
      LET kids == t.nodes[ids[i]].children
          size == Cardinality(DescendantsOf(t, ids[i]))
      IN  /\ i + size <= Len(ids)
          /\ {ids[j] : j \in (i + 1)..(i + size)} = DescendantsOf(t, ids[i])
          /\ Len(kids) > 0 => ids[i + 1] = kids[1]
          /\ \A m \in 1..(Len(kids) - 1) :
               PositionOf(ids, kids[m + 1])
                 = PositionOf(ids, kids[m]) + 1
                     + Cardinality(DescendantsOf(t, kids[m]))

\* in ids no node comes before a node of smaller depth
DepthsAscend(t, ids) ==
  \A i, j \in 1..Len(ids) :
    (i < j /\ Has(t, ids[i]) /\ Has(t, ids[j])) =>
      DepthOf(t, ids[i]) <= DepthOf(t, ids[j])

\* C32: for every tree the program holds, dfsOrder returns a list in which
\* each node is immediately followed by its whole subtree (children in
\* stored order) before any later sibling's subtree, bfsOrder returns a
\* list in which every node of depth k comes before any node of depth k+1,
\* and each reachable node appears exactly once in each.
C32_TraversalOrders ==
  /\ ~dfsOrder(tree).overflow
  /\ ~bfsOrder(tree).diverges
  /\ ListsReachableOnce(tree, dfsOrder(tree).ids)
  /\ ListsReachableOnce(tree, bfsOrder(tree).ids)
  /\ SubtreesContiguous(tree, dfsOrder(tree).ids)
  /\ DepthsAscend(tree, bfsOrder(tree).ids)

\* What is left of C32 where C1's missing check has not made the root its
\* own child: wherever the root is not below itself both orders are
\* returned and are as C32 says.
C32_HoldsWhileRootAcyclic ==
  (Has(tree, tree.rootId) => tree.rootId \notin DescendantsOf(tree, tree.rootId))
    => C32_TraversalOrders

\* C33: normalisePath is idempotent: for every input p on which
\* normalisePath(p) succeeds, normalisePath(normalisePath(p)) succeeds and
\* returns normalisePath(p), for relative, leading-slash and drive-letter
\* paths.
C33_NormaliseIdempotent ==
  (norm.pc = "path" /\ Len(norm.results) = 2) =>
    norm.results[2] = norm.results[1]

\* the names from below the root down to the node id
RECURSIVE NamesBelowRoot(_, _, _)
NamesBelowRoot(t, id, fuel) ==
  IF id = t.rootId \/ ~Has(t, id) \/ fuel = 0 THEN <<>>
  ELSE Append(NamesBelowRoot(t, t.nodes[id].parentId, fuel - 1), t.nodes[id].name)

\* the directory structure the staged tree describes, as a disk: one entry
\* per node, at the path its names give
TreeDisk(t) ==
  {[path |-> NamesBelowRoot(t, id, Cardinality(DOMAIN t.nodes)),
    kind |-> t.nodes[id].kind] : id \in DOMAIN t.nodes}

\* an applyDiff call of generateDiff(tree) has returned, having started on
\* the snapshot's disk, with the confirmation granted and no probe that
\* found a file locked
AppliedToMirror ==
  /\ run.pc = "done"
  /\ run.diff.ops = last.ops
  /\ run.disk0 = SnapshotDisk(tree)
  /\ run.confirmed # "no"
  /\ \A k \in 1..Len(run.log) : run.log[k].lockState # "locked"

\* every op of the run is reported applied
AllApplied ==
  /\ Len(run.response.results) = Len(run.diff.ops)
  /\ \A k \in 1..Len(run.response.results) : run.response.results[k].status = "applied"

\* C34: starting from a file system that mirrors the loaded snapshot, with
\* no locked file and the confirmation granted, applying generateDiff(tree)
\* for a tree reached by create / rename / move / delete calls ends with
\* every op reported applied and ok = true.
C34_StagedDiffApplies ==
  AppliedToMirror => (AllApplied /\ run.response.ok)

\* C35: starting from a file system that mirrors the loaded snapshot,
\* whenever applying generateDiff(tree) reports every op applied, the disk
\* (names, kinds and parent-child relation under baseRoot) equals the
\* staged tree.
C35_AppliedDiskEqualsTree ==
  (AppliedToMirror /\ AllApplied) => run.disk = TreeDisk(tree)

\* the statuses a result carries
Statuses == {"applied", "skipped", "failed", "aborted"}

\* C36: when the run is confirmed, results has exactly one entry per diff
\* op, results[i] describing ops[i] (same type and kind) with one status of
\* applied, skipped, failed, aborted; the ops are processed strictly in diff
\* order: whatever the call does for an op (lock probe, handler call,
\* file-system call) it does when all earlier ops and no later op have
\* their result, and results grows by one entry at a time, at its end.
C36_OneResultPerOpInOrder ==
  /\ []((run.pc # "idle" /\ run.confirmed # "no") =>
         /\ Len(run.results) = run.index - 1
         /\ Len(run.results) <= Len(run.diff.ops)
         /\ \A k \in 1..Len(run.results) :
              /\ run.results[k].type = run.diff.ops[k].type
              /\ run.results[k].kind = run.diff.ops[k].kind
              /\ run.results[k].status \in Statuses
         /\ run.pc = "done" =>
              /\ Len(run.results) = Len(run.diff.ops)
              /\ run.response.results = run.results
         /\ \A j, k \in 1..Len(run.log) :
              (j < k /\ run.log[k].i # 0) =>
                (run.log[j].i # 0 /\ run.log[j].i <= run.log[k].i))
  /\ [][(run.pc # "idle" /\ run'.pc # "idle") =>
          /\ \/ run'.results = run.results
             \/ /\ Len(run'.results) = Len(run.results) + 1
                /\ SubSeq(run'.results, 1, Len(run.results)) = run.results
          /\ Len(run'.log) >= Len(run.log)
          /\ SubSeq(run'.log, 1, Len(run.log)) = run.log
          /\ \A k \in (Len(run.log) + 1)..Len(run'.log) :
               run'.log[k].i \in {0, Len(run.results) + 1}]_vars

\* C36 witness: a confirmed run has returned three results of three
\* different statuses for its three ops, two of them of different types.
C36_ThreeResults ==
  /\ run.pc = "done"
  /\ run.confirmed = "yes"
  /\ Len(run.diff.ops) = 3
  /\ Cardinality({run.response.results[k].status : k \in 1..Len(run.response.results)}) = 3
  /\ run.diff.ops[1].type # run.diff.ops[3].type

\* C37: applyDiff terminates with a response provided that every file
\* found locked is in the end skipped, aborted on, or found free by a
\* re-probe, however many re-probes (up to MaxAsks, which is not a limit
\* of the loop's) find it locked before.
C37_TerminatesWhenLockEnds == <>(run.pc = "done" /\ run.response.returned)

\* C37 witness: a call has returned after the handler was asked MaxAsks
\* times about one file, each re-probe but the last finding it locked, and
\* the op was applied once the file was free.
C37_ReturnedAfterRetries ==
  /\ run.pc = "done" /\ run.response.returned
  /\ \E k \in 1..Len(run.diff.ops) :
       /\ Events(run, k, "ask") = MaxAsks
       /\ run.response.results[k].status = "applied"

\* C38: a successful createNode adds exactly one new node and replaces none:
\* the returned id named no node before, the ids of the tree are the old ones
\* and the new one, and every old id keeps its name, kind and parentId; an
\* allocated id is local-N with N not below the counter and above the N of
\* every local id in the tree, and the counter ends above N.
C38_CreateAddsOneNode ==
  [][\A p \in IdInputs, n \in NameInputs, k \in Kinds, i \in SuppliedIds :
       (CreateNode(p, n, k, i) /\ last'.err = "none") =>
         /\ last'.ret \notin DOMAIN tree.nodes
         /\ DOMAIN tree'.nodes = DOMAIN tree.nodes \cup {last'.ret}
         /\ \A id \in DOMAIN tree.nodes :
              /\ tree'.nodes[id].name = tree.nodes[id].name
              /\ tree'.nodes[id].kind = tree.nodes[id].kind
              /\ tree'.nodes[id].parentId = tree.nodes[id].parentId
         /\ i = NULL =>
              /\ last'.ret = LocalId(tree.nextLocalId)
              /\ \A id \in DOMAIN tree.nodes :
                   MatchLocalId(id) < MatchLocalId(last'.ret)
         /\ MatchLocalId(last'.ret) < tree'.nextLocalId]_vars

\* C38 where it holds: the same, for the calls that allocate the id or supply
\* one that names no node.
C38_HoldsForUnusedIds ==
  [][\A p \in IdInputs, n \in NameInputs, k \in Kinds, i \in SuppliedIds :
       (CreateNode(p, n, k, i) /\ last'.err = "none"
          /\ (i = NULL \/ ~Has(tree, i))) =>
         /\ last'.ret \notin DOMAIN tree.nodes
         /\ DOMAIN tree'.nodes = DOMAIN tree.nodes \cup {last'.ret}
         /\ \A id \in DOMAIN tree.nodes :
              /\ tree'.nodes[id].name = tree.nodes[id].name
              /\ tree'.nodes[id].kind = tree.nodes[id].kind
              /\ tree'.nodes[id].parentId = tree.nodes[id].parentId
         /\ MatchLocalId(last'.ret) < tree'.nextLocalId]_vars

\* parent and child links of the tree t agree, and every node hangs under the
\* root
LinksAgree(t) ==
  /\ \A n \in DOMAIN t.nodes \ {t.rootId} :
       /\ Has(t, t.nodes[n].parentId)
       /\ \A p \in DOMAIN t.nodes :
            Occurrences(t.nodes[p].children, n)
              = IF p = t.nodes[n].parentId THEN 1 ELSE 0
  /\ \A p \in DOMAIN t.nodes : \A c \in Range(t.nodes[p].children) :
       Has(t, c) /\ t.nodes[c].parentId = p
  /\ DOMAIN t.nodes \subseteq ReachableFrom(t, {t.rootId})

\* C39: after any sequence of create / rename / move / delete calls every
\* non-root node has its parent in nodes and stands exactly once in that
\* parent's children and in no other node's children, every id in a node's
\* children is a node whose parentId is that node, and every node is
\* reachable from rootId.
C39_LinksAgree == LinksAgree(tree)

\* C39 where it holds: a call keeps the links in agreement unless it is a
\* move of a node into itself or a descendant.
C39_KeptByOtherCalls ==
  [][LinksAgree(tree) =>
       /\ \A id \in IdInputs : DeleteNode(id) => LinksAgree(tree')
       /\ \A id \in IdInputs, n \in NameInputs :
            RenameNode(id, n) => LinksAgree(tree')
       /\ \A id \in IdInputs, target \in IdInputs :
            (MoveNode(id, target)
               /\ (Has(tree, id) => target \notin DescendantsOf(tree, id) \cup {id}))
              => LinksAgree(tree')
       /\ \A p \in IdInputs, n \in NameInputs, k \in Kinds, i \in PayloadIds :
            CreateNode(p, n, k, i) => LinksAgree(tree')]_vars

\* C40: applyCurrentDiff hands services.applyDiff the diff of the store's
\* current tree: the ops sent are the ops generateDiff gives for state.tree
\* as it is when applyCurrentDiff is called, also after previewCurrentDiff
\* and a setTree with a further-edited tree.
C40_AppliesDiffOfCurrentTree ==
  [][\A snapshot \in SnapshotResults :
       (/\ ApplyCurrentDiff(snapshot)
        /\ store.tree # NULL
        /\ ~generateDiffDiverges(store.tree[1])) =>
         /\ store'.last.err = "none"
         /\ store'.sent[Len(store'.sent)].ops = generateDiff(store.tree[1]).ops]_vars

\* C40 where it holds: the same when no diff is held from a preview, and
\* when the tree has not been set since the preview.
C40_HoldsWithoutStaleDiff ==
  [][\A snapshot \in SnapshotResults :
       (/\ ApplyCurrentDiff(snapshot)
        /\ store.tree # NULL
        /\ ~generateDiffDiverges(store.tree[1])
        /\ store.diff = NULL) =>
         /\ store'.last.err = "none"
         /\ store'.sent[Len(store'.sent)].ops = generateDiff(store.tree[1]).ops]_vars

====
